---- MODULE Spec2Model ----
(***************************************************************************)
(* A model of the control plane of mscclpp: the Communicator's two-phase   *)
(* setup protocol (communicator.cc, first part) and the Executor's         *)
(* execution-context cache (communicator.cc, second part).                 *)
(*                                                                         *)
(* Every rank runs one Communicator on a single control thread.  setup()   *)
(* is modelled at the granularity of its loop iterations: one step per     *)
(* loop test, which either invokes the hook of the element the loop is at  *)
(* or leaves the loop.  A blocking bootstrap recv is a step that is        *)
(* enabled only when a message is there.                                   *)
(***************************************************************************)
EXTENDS Integers, Sequences, FiniteSets, TLC

(***************************************************************************)
(* Bounds of the model.                                                    *)
(***************************************************************************)
\* Setuppables enqueued over a run of Spec, all ranks together.
MaxObjs == 3

\* Connections made over a run of SpecConn or SpecIb, all ranks together.
MaxConns == 2

\* Setuppables enqueued over a run of SpecXchg, all ranks together.
MaxXchg == 4

\* The ranks of the job, the host identities, the bootstrap tags.
Ranks == {0, 1}
Hosts == {"hostA", "hostB"}
Tags == {0, 1}

(***************************************************************************)
(* Transports.                                                             *)
(***************************************************************************)
\* communicator.cc:188 the table of the RDMA transports
IBs == <<"IB0", "IB1", "IB2", "IB3", "IB4", "IB5", "IB6", "IB7">>

\* communicator.cc:111 the flag set AllIBTransports
AllIBTransports == {IBs[i] : i \in DOMAIN IBs}

\* The bit each transport has in a TransportFlags set.
TransportOrder == <<"Unknown", "CudaIpc">> \o IBs

\* The transports connectOnSetup is called with, and the RDMA transports
\* looked up directly.
TransportInputs == {"Unknown", "CudaIpc", "IB0"}
IbInputs == {"IB0", "IB1"}

(***************************************************************************)
(* RegisteredMemory and its wire form.                                     *)
(***************************************************************************)
\* communicator.cc:52 registerMemory: the owning rank is the calling rank.
registerMemory(rank, ptr, size, transports) ==
  [rank |-> rank, ptr |-> ptr, size |-> size, transports |-> transports]

Peers(r) == Ranks \ {r}

\* The k-th region a rank registers: the regions differ in address and size,
\* and alternate between two flag sets.
MemoryOf(rank, k) ==
  registerMemory(rank, 16 * k, k,
                 IF k % 2 = 1 THEN {"CudaIpc"} ELSE {"CudaIpc", "IB0"})

NoMemory == [rank |-> -1, ptr |-> 0, size |-> 0, transports |-> {}]

RECURSIVE Pow2(_)
Pow2(n) == IF n = 0 THEN 1 ELSE 2 * Pow2(n - 1)

RECURSIVE FlagsToBits(_, _)
FlagsToBits(flags, i) ==
  IF i > Len(TransportOrder) THEN 0
  ELSE (IF TransportOrder[i] \in flags THEN Pow2(i - 1) ELSE 0)
       + FlagsToBits(flags, i + 1)

BitsToFlags(bits) ==
  { TransportOrder[i] : i \in { j \in DOMAIN TransportOrder :
                                  (bits \div Pow2(j - 1)) % 2 = 1 } }

\* RegisteredMemory::serialize: the descriptor as a sequence of words.
serialize(memory) ==
  <<memory.rank, memory.ptr, memory.size, FlagsToBits(memory.transports, 1)>>

\* RegisteredMemory::deserialize
deserialize(data) ==
  [rank |-> data[1], ptr |-> data[2], size |-> data[3],
   transports |-> BitsToFlags(data[4])]

(***************************************************************************)
(* State.                                                                  *)
(***************************************************************************)
VARIABLES
  rankToHash,   \* Impl::rankToHash_: the all-gathered table rank -> host hash
  toSetup,      \* Impl::toSetup_ of every rank: the pending Setuppables
  connections,  \* Impl::connections_ of every rank
  ibContexts,   \* Impl::ibContexts_ of every rank: transport -> context, 0 none
  channel,      \* the bootstrap: (src, dst, tag) -> messages in flight
  futures,      \* the promises of the MemoryReceivers a rank has created
  pc,           \* where the rank's control thread is: idle, begin, end
  idx,          \* the position of the loop of setup() the thread is in
  nextId,       \* the identity the rank's next Setuppable gets
  lastError,    \* the error the rank's last call raised, NoError if none
  callLog,      \* what the current (or last) setup() call did, in order
  callSet,      \* the Setuppables enqueued before the current setup() call
  enq,          \* the Setuppables enqueued since the last setup() call
  nBegin,       \* per Setuppable: how often beginSetup ran on it
  nEnd,         \* per Setuppable: how often endSetup ran on it
  sentLog,      \* (src, dst, tag) -> descriptors handed to sendMemoryOnSetup
  ibCreated,    \* per rank: the transports an IbCtx was constructed for
  lastCtx       \* per rank: the context the last getIbContext returned

commVars == <<rankToHash, toSetup, connections, ibContexts, channel, futures,
              pc, idx, nextId, lastError, callLog, callSet, enq, nBegin, nEnd,
              sentLog, ibCreated, lastCtx>>

VARIABLES
  nranksPerNode,  \* Executor::Impl::nranksPerNode, read from the bootstrap
  contexts,       \* Executor::Impl::contexts: the entries (key, context)
  planImpl,       \* per plan name: what the plan is loaded with
  lastCall,       \* the last setupExecutionContext call and how it ended
  run,            \* per rank: the setupExecutionContext call of the rank's
                  \* Executor that is under way, or the last one it made
  caches          \* per rank: Executor::Impl::contexts of the rank's Executor

execVars == <<nranksPerNode, contexts, planImpl, lastCall, run, caches>>

\* The transport the Executor last selected for a peer and how connectOnSetup
\* ended for it.
VARIABLE selected

\* Executor::launchKernel and Executor::execute
\*   flag         the static launch counter of launchKernel
\*   kernel       the last kernel launched: its flag and its buffers
\*   launches     the kernels launched in this run
\*   lastExecute  the arguments of the last execute() and how it ended
VARIABLES flag, kernel, launches, lastExecute

launchVars == <<flag, kernel, launches, lastExecute>>

\* tests/allgather_test.cu
\*   world_size  the ranks of the run (0 before a run is set up)
\*   kernelNum   the all-gather kernel of the run
\*   data_d      rank -> the device buffer, element by element
\*   warp        rank -> warp -> the position of the warp's first thread
\*   fifo        <<src, dst>> -> the requests of the connection under way
\*   semaphore   rank -> peer -> the signals of the peer that have arrived
VARIABLES world_size, kernelNum, data_d, warp, fifo, semaphore

testVars == <<world_size, kernelNum, data_d, warp, fifo, semaphore>>

\* The functions that build a context, taken apart from a run.
\*   built  the last context built: the rank and the plan it was built for,
\*          the ranks per node, the key, the plan as loaded, the context as
\*          setupChannels found it, and the context
VARIABLE built

pureVars == <<built>>

auxVars == <<selected, pureVars, launchVars, testVars>>

vars == <<commVars, execVars, auxVars>>

\* The plans callers hand to the Executor, by name.
PlanNames == {"allgather", "allreduce"}

\* A plan nothing was loaded into yet.
NotLoaded ==
  [loaded |-> "none", inputSize |-> 0, outputSize |-> 0,
   srcOffset |-> 0, dstOffset |-> 0]

NoCall ==
  [rank |-> -1, key |-> <<>>, path |-> "none", outcome |-> "none",
   stage |-> "none"]

\* A rank whose Executor has not been called: pos is the place of the call
\* in the cold path (0 outside of it), context the local ExecutionContext
\* being built, memory the last region registered, pending the futures not
\* yet read, log the Communicator calls and stages the call went through.
NoRun ==
  [pos |-> 0, path |-> "none", outcome |-> "none", key |-> <<>>,
   impl |-> NotLoaded, context |-> <<>>, memory |-> <<>>, pending |-> <<>>,
   log |-> <<>>]

\* Bootstrap::getNranksPerNode: the ranks that share a host with rank 0.
getNranksPerNode(table) ==
  Cardinality({r \in DOMAIN table : table[r] = table[0]})

Links == Ranks \X Ranks \X Tags

ObjIds == 1..(MaxObjs + MaxConns + MaxXchg)

RECURSIVE SumOver(_, _)
SumOver(f, S) ==
  IF S = {} THEN 0
  ELSE LET x == CHOOSE y \in S : TRUE IN f[x] + SumOver(f, S \ {x})

\* Setuppables created so far, all ranks together.
TotalObjs == SumOver([r \in Ranks |-> nextId[r] - 1], Ranks)

NoError == [code |-> "none", remoteRank |-> -1, transport |-> "Unknown"]

\* Executor::Impl::Impl: the cache is empty, no plan has been loaded.
ExecutorInit ==
  /\ nranksPerNode = getNranksPerNode(rankToHash)
  /\ contexts = {}
  /\ planImpl = [n \in PlanNames |-> NotLoaded]
  /\ lastCall = NoCall
  /\ run = [r \in Ranks |-> NoRun]
  /\ caches = [r \in Ranks |-> {}]

\* No context has been built apart from a run.
NoBuild ==
  [rank |-> -1, plan |-> "none", n |-> 0, key |-> <<>>, impl |-> NotLoaded,
   stage |-> "none", before |-> <<>>, context |-> <<>>]

NoSelection ==
  [rank |-> -1, peer |-> -1, transport |-> "Unknown", result |-> "none"]

\* communicator.cc:446 the launch counter is a uint32_t, kept as two halves
\* of 16 bits.
HalfWord == 65536

FlagZero == [hi |-> 0, lo |-> 0]

NoExecute ==
  [sendbuff |-> 0, recvbuff |-> 0, sendBuffSize |-> 0, recvBuffSize |-> 0,
   plan |-> "none", packetType |-> "none", result |-> "none"]

\* No all-gather run is set up.
NoTest ==
  /\ world_size = 0
  /\ kernelNum = 1
  /\ data_d = <<>>
  /\ warp = <<>>
  /\ fifo = <<>>
  /\ semaphore = <<>>

\* The state of launchKernel after the launches that left the counter at one
\* of the flags.
LaunchInit(flags) ==
  /\ flag \in flags
  /\ kernel = [flag |-> flag, sendbuff |-> 0, recvbuff |-> 0]
  /\ launches = 0
  /\ lastExecute = NoExecute

\* Communicator::Impl::Impl: the table is all-gathered, the rest is empty.
CommunicatorInit(tables) ==
  /\ rankToHash \in tables
  /\ toSetup = [r \in Ranks |-> <<>>]
  /\ connections = [r \in Ranks |-> <<>>]
  /\ ibContexts = [r \in Ranks |-> [t \in AllIBTransports |-> 0]]
  /\ channel = [l \in Links |-> <<>>]
  /\ futures = [r \in Ranks |-> <<>>]
  /\ pc = [r \in Ranks |-> "idle"]
  /\ idx = [r \in Ranks |-> 0]
  /\ nextId = [r \in Ranks |-> 1]
  /\ lastError = [r \in Ranks |-> NoError]
  /\ callLog = [r \in Ranks |-> <<>>]
  /\ callSet = [r \in Ranks |-> <<>>]
  /\ enq = [r \in Ranks |-> <<>>]
  /\ nBegin = [r \in Ranks |-> [i \in ObjIds |-> 0]]
  /\ nEnd = [r \in Ranks |-> [i \in ObjIds |-> 0]]
  /\ sentLog = [l \in Links |-> <<>>]
  /\ ibCreated = [r \in Ranks |-> <<>>]
  /\ lastCtx = [r \in Ranks |-> <<>>]
  /\ ExecutorInit
  /\ selected = NoSelection
  /\ built = NoBuild

Init ==
  /\ CommunicatorInit({t \in [Ranks -> Hosts] : t[0] = "hostA"})
  /\ LaunchInit({FlagZero})
  /\ NoTest

(***************************************************************************)
(* The bootstrap: reliable and ordered per (src, dst, tag).                *)
(***************************************************************************)
BootstrapSend(ch, src, dst, tag, data) ==
  [ch EXCEPT ![<<src, dst, tag>>] = Append(@, data)]

BootstrapRecvReady(ch, src, dst, tag) == ch[<<src, dst, tag>>] # <<>>

BootstrapRecvData(ch, src, dst, tag) == Head(ch[<<src, dst, tag>>])

BootstrapRecvRest(ch, src, dst, tag) ==
  [ch EXCEPT ![<<src, dst, tag>>] = Tail(@)]

(***************************************************************************)
(* The Setuppables: MemorySender, MemoryReceiver, a connection, and any    *)
(* other object handed to onSetup.                                         *)
(***************************************************************************)
Setuppable(id, kind, remoteRank, tag, memory, transport, fut) ==
  [id |-> id, kind |-> kind, remoteRank |-> remoteRank, tag |-> tag,
   memory |-> memory, transport |-> transport, fut |-> fut]

\* MemorySender::beginSetup sending with the tag ExchangeTag, whatever tag_ is.
beginSetupOneTag(obj, r, ch) ==
  IF obj.kind = "sender"
  THEN BootstrapSend(ch, r, obj.remoteRank, 0, serialize(obj.memory))
  ELSE ch

\* A MemorySender that does not send in beginSetup.
beginSetupNoSend(obj, r, ch) == ch

\* beginSetup of a Setuppable of rank r: what it does to the bootstrap.
\* Only MemorySender overrides it.
beginSetup(obj, r, ch) ==
  IF obj.kind = "sender"
  THEN BootstrapSend(ch, r, obj.remoteRank, obj.tag, serialize(obj.memory))
  ELSE ch

\* MemoryReceiver::endSetup with a recv that gives up when no message is
\* there, leaving the promise unset.
endSetupNoWait(obj, r, ch, futs) ==
  IF obj.kind = "receiver" /\ BootstrapRecvReady(ch, obj.remoteRank, r, obj.tag)
  THEN [ready |-> TRUE,
        ch |-> BootstrapRecvRest(ch, obj.remoteRank, r, obj.tag),
        futs |-> [futs EXCEPT ![obj.fut].value =
           <<deserialize(BootstrapRecvData(ch, obj.remoteRank, r, obj.tag))>>]]
  ELSE [ready |-> TRUE, ch |-> ch, futs |-> futs]

\* endSetup of a Setuppable of rank r, on the bootstrap ch and the promises
\* futs of the rank: whether it can run (MemoryReceiver's recv blocks until
\* a message is there), and what it leaves.  Only MemoryReceiver overrides it.
endSetup(obj, r, ch, futs) ==
  IF obj.kind = "receiver"
  THEN IF BootstrapRecvReady(ch, obj.remoteRank, r, obj.tag)
       THEN [ready |-> TRUE,
             ch |-> BootstrapRecvRest(ch, obj.remoteRank, r, obj.tag),
             futs |-> [futs EXCEPT ![obj.fut].value =
                <<deserialize(BootstrapRecvData(ch, obj.remoteRank, r, obj.tag))>>]]
       ELSE [ready |-> FALSE, ch |-> ch, futs |-> futs]
  ELSE [ready |-> TRUE, ch |-> ch, futs |-> futs]

(***************************************************************************)
(* The enqueueing calls.                                                   *)
(***************************************************************************)
CanCall(r) == pc[r] = "idle"

\* onSetup putting the new Setuppable at the front of the queue.
onSetupFront(queue, setuppable) == <<setuppable>> \o queue

\* communicator.cc:125 onSetup
onSetup(queue, setuppable) == Append(queue, setuppable)

\* An enqueueing call: onSetup, and the bookkeeping of the new identity.
Enqueue(r, obj) ==
  /\ toSetup' = [toSetup EXCEPT ![r] = onSetup(@, obj)]
  /\ nextId' = [nextId EXCEPT ![r] = @ + 1]
  /\ enq' = [enq EXCEPT ![r] = Append(@, obj.id)]

\* Communicator::onSetup called with a Setuppable of the caller's own, whose
\* hooks are the base class's.
OnSetup(r) ==
  /\ CanCall(r)
  /\ Enqueue(r, Setuppable(nextId[r], "other", r, 0, NoMemory, "Unknown", 0))
  /\ lastError' = [lastError EXCEPT ![r] = NoError]
  /\ UNCHANGED <<rankToHash, connections, ibContexts, channel, futures, pc,
                 idx, callLog, callSet, nBegin, nEnd, sentLog, ibCreated,
                 lastCtx>>

\* sendMemoryOnSetup sending the descriptor at once, besides enqueueing.
SendMemoryOnSetupEager(r, memory, remoteRank, tag) ==
  /\ CanCall(r)
  /\ Enqueue(r, Setuppable(nextId[r], "sender", remoteRank, tag, memory,
                           "Unknown", 0))
  /\ channel' = BootstrapSend(channel, r, remoteRank, tag, serialize(memory))
  /\ sentLog' = [sentLog EXCEPT ![<<r, remoteRank, tag>>] = Append(@, memory)]
  /\ lastError' = [lastError EXCEPT ![r] = NoError]
  /\ UNCHANGED <<rankToHash, connections, ibContexts, futures, pc, idx,
                 callLog, callSet, nBegin, nEnd, ibCreated, lastCtx>>

\* communicator.cc:70 sendMemoryOnSetup
SendMemoryOnSetup(r, memory, remoteRank, tag) ==
  /\ CanCall(r)
  /\ Enqueue(r, Setuppable(nextId[r], "sender", remoteRank, tag, memory,
                           "Unknown", 0))
  /\ sentLog' = [sentLog EXCEPT ![<<r, remoteRank, tag>>] = Append(@, memory)]
  /\ lastError' = [lastError EXCEPT ![r] = NoError]
  /\ UNCHANGED <<rankToHash, connections, ibContexts, channel, futures, pc,
                 idx, callLog, callSet, nBegin, nEnd, ibCreated, lastCtx>>

\* communicator.cc:88 recvMemoryOnSetup
RecvMemoryOnSetup(r, remoteRank, tag) ==
  /\ CanCall(r)
  /\ Enqueue(r, Setuppable(nextId[r], "receiver", remoteRank, tag, NoMemory,
                           "Unknown", Len(futures[r]) + 1))
  /\ futures' = [futures EXCEPT ![r] =
                   Append(@, [id |-> nextId[r], remoteRank |-> remoteRank,
                              tag |-> tag, value |-> <<>>])]
  /\ lastError' = [lastError EXCEPT ![r] = NoError]
  /\ UNCHANGED <<rankToHash, connections, ibContexts, channel, pc, idx,
                 callLog, callSet, nBegin, nEnd, sentLog, ibCreated, lastCtx>>

(***************************************************************************)
(* getIbContext and connectOnSetup.                                        *)
(***************************************************************************)
\* getIbContext without the lookup: a context is constructed every time.
getIbContextNoFind(ctxs, created, ibTransport) ==
  [ctxs |-> [ctxs EXCEPT ![ibTransport] = Len(created) + 1],
   created |-> Append(created, ibTransport),
   ret |-> Len(created) + 1]

\* communicator.cc:31 getIbContext on the cache ctxs of a rank, created being
\* the transports an IbCtx was constructed for so far.  A context is named
\* by its place in that list.
getIbContext(ctxs, created, ibTransport) ==
  IF ctxs[ibTransport] = 0
  THEN [ctxs |-> [ctxs EXCEPT ![ibTransport] = Len(created) + 1],
        created |-> Append(created, ibTransport),
        ret |-> Len(created) + 1]
  ELSE [ctxs |-> ctxs, created |-> created, ret |-> ctxs[ibTransport]]

\* A lookup of the cache, as the RDMA code of the library makes them.
GetIbContext(r, ibTransport) ==
  /\ CanCall(r)
  /\ LET look == getIbContext(ibContexts[r], ibCreated[r], ibTransport) IN
       /\ ibContexts' = [ibContexts EXCEPT ![r] = look.ctxs]
       /\ ibCreated' = [ibCreated EXCEPT ![r] = look.created]
       /\ lastCtx' = [lastCtx EXCEPT ![r] = <<ibTransport, look.ret>>]
  /\ lastError' = [lastError EXCEPT ![r] = NoError]
  /\ UNCHANGED <<rankToHash, toSetup, connections, channel, futures, pc, idx,
                 nextId, callLog, callSet, enq, nBegin, nEnd, sentLog>>

\* The sanity check comparing the remote rank's hash with itself.
sameHostHashOfRemote(r, remoteRank) == rankToHash[remoteRank] = rankToHash[remoteRank]

\* communicator.cc:98 the sanity check of an IPC connection
sameHostHash(r, remoteRank) == rankToHash[remoteRank] = rankToHash[r]

\* connectOnSetup without its last else: an unsupported transport falls
\* through to the registration of the (null) connection.
connectResultNoElse(r, remoteRank, transport) ==
  IF transport = "CudaIpc" /\ ~sameHostHash(r, remoteRank)
  THEN "InvalidUsage" ELSE "ok"

\* communicator.cc:96 how connectOnSetup ends for a transport
connectResult(r, remoteRank, transport) ==
  IF transport = "CudaIpc"
  THEN IF ~sameHostHash(r, remoteRank) THEN "InvalidUsage" ELSE "ok"
  ELSE IF transport \in AllIBTransports THEN "ok" ELSE "InternalError"

\* communicator.cc:94 connectOnSetup.  An IBConnection is constructed against
\* the context of its transport.
ConnectOnSetup(r, remoteRank, tag, transport) ==
  /\ CanCall(r)
  /\ LET res == connectResult(r, remoteRank, transport) IN
       /\ lastError' = [lastError EXCEPT ![r] =
                          IF res = "ok" THEN NoError
                          ELSE [code |-> res, remoteRank |-> remoteRank,
                                transport |-> transport]]
       /\ IF res = "ok"
          THEN /\ connections' = [connections EXCEPT ![r] =
                    Append(@, [id |-> nextId[r], remoteRank |-> remoteRank,
                               tag |-> tag, transport |-> transport])]
               /\ Enqueue(r, Setuppable(nextId[r], "connection", remoteRank,
                                        tag, NoMemory, transport, 0))
               /\ IF transport \in AllIBTransports
                  THEN LET look == getIbContext(ibContexts[r], ibCreated[r],
                                                transport) IN
                         /\ ibContexts' = [ibContexts EXCEPT ![r] = look.ctxs]
                         /\ ibCreated' = [ibCreated EXCEPT ![r] = look.created]
                         /\ lastCtx' = [lastCtx EXCEPT ![r] =
                                          <<transport, look.ret>>]
                  ELSE UNCHANGED <<ibContexts, ibCreated, lastCtx>>
          ELSE UNCHANGED <<connections, toSetup, nextId, enq, ibContexts,
                           ibCreated, lastCtx>>
  /\ UNCHANGED <<rankToHash, channel, futures, pc, idx, callLog, callSet,
                 nBegin, nEnd, sentLog>>

(***************************************************************************)
(* setup()                                                                 *)
(***************************************************************************)
\* setup() returning without clearing the queue.
clearForgotten(queue) == queue

\* communicator.cc:136 toSetup_.clear()
clear(queue) == <<>>

LogEvent(ev, id) == [ev |-> ev, id |-> id]

\* communicator.cc:129 the call enters the first loop.
SetupCall(r) ==
  /\ CanCall(r)
  /\ pc' = [pc EXCEPT ![r] = "begin"]
  /\ idx' = [idx EXCEPT ![r] = 1]
  /\ callLog' = [callLog EXCEPT ![r] = <<>>]
  /\ callSet' = [callSet EXCEPT ![r] = enq[r]]
  /\ enq' = [enq EXCEPT ![r] = <<>>]
  /\ lastError' = [lastError EXCEPT ![r] = NoError]
  /\ UNCHANGED <<rankToHash, toSetup, connections, ibContexts, channel,
                 futures, nextId, nBegin, nEnd, sentLog, ibCreated, lastCtx>>

\* communicator.cc:130 one test of the first loop: beginSetup on the element
\* it is at, or on to the second loop.
BeginLoop(r) ==
  /\ pc[r] = "begin"
  /\ \/ /\ idx[r] <= Len(toSetup[r])
        /\ LET obj == toSetup[r][idx[r]] IN
             /\ channel' = beginSetup(obj, r, channel)
             /\ callLog' = [callLog EXCEPT ![r] =
                   IF obj.kind = "sender"
                   THEN @ \o <<LogEvent("begin", obj.id), LogEvent("send", obj.id)>>
                   ELSE Append(@, LogEvent("begin", obj.id))]
             /\ nBegin' = [nBegin EXCEPT ![r][obj.id] = @ + 1]
        /\ idx' = [idx EXCEPT ![r] = @ + 1]
        /\ UNCHANGED pc
     \/ /\ idx[r] > Len(toSetup[r])
        /\ pc' = [pc EXCEPT ![r] = "end"]
        /\ idx' = [idx EXCEPT ![r] = 1]
        /\ UNCHANGED <<channel, callLog, nBegin>>
  /\ UNCHANGED <<rankToHash, toSetup, connections, ibContexts, futures, nextId,
                 lastError, callSet, enq, nEnd, sentLog, ibCreated, lastCtx>>

\* communicator.cc:133 one test of the second loop: endSetup on the element
\* it is at, or the queue is cleared and the call returns.
EndLoop(r) ==
  /\ pc[r] = "end"
  /\ \/ /\ idx[r] <= Len(toSetup[r])
        /\ LET obj == toSetup[r][idx[r]]
               done == endSetup(obj, r, channel, futures[r])
           IN
             /\ done.ready
             /\ channel' = done.ch
             /\ futures' = [futures EXCEPT ![r] = done.futs]
             /\ callLog' = [callLog EXCEPT ![r] =
                   IF obj.kind = "receiver"
                   THEN @ \o <<LogEvent("end", obj.id), LogEvent("recv", obj.id)>>
                   ELSE Append(@, LogEvent("end", obj.id))]
             /\ nEnd' = [nEnd EXCEPT ![r][obj.id] = @ + 1]
        /\ idx' = [idx EXCEPT ![r] = @ + 1]
        /\ UNCHANGED <<pc, toSetup, callSet>>
     \/ /\ idx[r] > Len(toSetup[r])
        /\ toSetup' = [toSetup EXCEPT ![r] = clear(@)]
        /\ pc' = [pc EXCEPT ![r] = "idle"]
        /\ idx' = [idx EXCEPT ![r] = 0]
        /\ callLog' = [callLog EXCEPT ![r] = <<>>]
        /\ callSet' = [callSet EXCEPT ![r] = <<>>]
        /\ UNCHANGED <<channel, futures, nEnd>>
  /\ UNCHANGED <<rankToHash, connections, ibContexts, nextId, lastError, enq,
                 nBegin, sentLog, ibCreated, lastCtx>>

(***************************************************************************)
(* The setup protocol: every enqueueing call and setup() on every rank,    *)
(* all ranks on one host, so that every connection asked for is made.      *)
(* Memory is exchanged with the one tag ExchangeTag here; SpecXchg has     *)
(* both.                                                                   *)
(***************************************************************************)
ExchangeTag == 0

InitOneHost ==
  /\ Init
  /\ rankToHash = [r \in Ranks |-> "hostA"]

Next ==
  /\ UNCHANGED <<execVars, auxVars>>
  /\ \E r \in Ranks :
       \/ /\ TotalObjs < MaxObjs
          /\ \/ OnSetup(r)
             \/ \E p \in Peers(r) :
                  SendMemoryOnSetup(r, MemoryOf(r, nextId[r]), p, ExchangeTag)
             \/ \E p \in Peers(r) : RecvMemoryOnSetup(r, p, ExchangeTag)
             \/ \E p \in Peers(r), t \in {"CudaIpc", "IB0"} :
                  ConnectOnSetup(r, p, ExchangeTag, t)
       \/ SetupCall(r)
       \/ BeginLoop(r)
       \/ EndLoop(r)

Spec == InitOneHost /\ [][Next]_vars

(***************************************************************************)
(* Connections: connectOnSetup with every kind of transport to every rank, *)
(* on every host table, and setup().                                       *)
(***************************************************************************)
NextConn ==
  /\ UNCHANGED <<execVars, auxVars>>
  /\ \E r \in Ranks :
       \/ /\ TotalObjs < MaxConns
          /\ \E p \in Ranks, t \in TransportInputs :
               ConnectOnSetup(r, p, ExchangeTag, t)
       \/ SetupCall(r)
       \/ BeginLoop(r)
       \/ EndLoop(r)

SpecConn == Init /\ [][NextConn]_vars

(***************************************************************************)
(* The RDMA contexts: lookups of the cache, directly and by the            *)
(* construction of RDMA connections, and setup().                          *)
(***************************************************************************)
NextIb ==
  /\ UNCHANGED <<execVars, auxVars>>
  /\ \E r \in Ranks :
       \/ /\ TotalObjs < MaxConns
          /\ \E p \in Peers(r), t \in IbInputs :
               ConnectOnSetup(r, p, ExchangeTag, t)
       \/ \E t \in IbInputs : GetIbContext(r, t)
       \/ SetupCall(r)
       \/ BeginLoop(r)
       \/ EndLoop(r)

SpecIb == InitOneHost /\ [][NextIb]_vars

(***************************************************************************)
(* The memory exchange alone: every rank sends and receives descriptors    *)
(* and calls setup(), with both tags and both regions.                     *)
(***************************************************************************)
NextXchg ==
  /\ UNCHANGED <<execVars, auxVars>>
  /\ \E r \in Ranks :
       \/ /\ TotalObjs < MaxXchg
          /\ \/ \E p \in Peers(r), t \in Tags :
                  SendMemoryOnSetup(r, MemoryOf(r, nextId[r]), p, t)
             \/ \E p \in Peers(r), t \in Tags : RecvMemoryOnSetup(r, p, t)
       \/ SetupCall(r)
       \/ BeginLoop(r)
       \/ EndLoop(r)

SpecXchg == InitOneHost /\ [][NextXchg]_vars

(***************************************************************************)
(* One round of the exchange: every rank enqueues its sends and receives,  *)
(* then calls setup() on its queue; a rank whose setup() has begun on its  *)
(* queue enqueues no more.  The control thread of a rank inside setup() keeps    *)
(* running: a loop of setup() that can take its next step takes it.        *)
(***************************************************************************)
FirstRound(r) == \A id \in ObjIds : nBegin[r][id] = 0

NextRound ==
  /\ UNCHANGED <<execVars, auxVars>>
  /\ \E r \in Ranks :
       \/ /\ TotalObjs < MaxXchg
          /\ FirstRound(r)
          /\ \/ \E p \in Peers(r), t \in Tags :
                  SendMemoryOnSetup(r, MemoryOf(r, nextId[r]), p, t)
             \/ \E p \in Peers(r), t \in Tags : RecvMemoryOnSetup(r, p, t)
       \/ toSetup[r] # <<>> /\ SetupCall(r)
       \/ BeginLoop(r)
       \/ EndLoop(r)

LiveXchg ==
  /\ InitOneHost
  /\ [][NextRound]_vars
  /\ \A r \in Ranks : /\ WF_vars(BeginLoop(r) /\ UNCHANGED <<execVars, auxVars>>)
                      /\ WF_vars(EndLoop(r) /\ UNCHANGED <<execVars, auxVars>>)

(***************************************************************************)
(* Helpers of the properties.                                              *)
(***************************************************************************)
Range(seq) == {seq[i] : i \in DOMAIN seq}

IsPrefix(s, t) == Len(s) <= Len(t) /\ SubSeq(t, 1, Len(s)) = s

IsHook(e) == e.ev \in {"begin", "end"}

\* The hook invocations of a setup() call, without its bootstrap traffic.
HookEvents(log) == SelectSeq(log, IsHook)

\* beginSetup on every one of ids in order, then endSetup on every one.
ExpectedHooks(ids) ==
  [i \in 1..Len(ids) |-> LogEvent("begin", ids[i])]
    \o [i \in 1..Len(ids) |-> LogEvent("end", ids[i])]

\* The rank's setup() call has left its second loop and is about to return.
Returning(r) == pc[r] = "end" /\ idx[r] > Len(toSetup[r])

QueueIds(r) == [i \in 1..Len(toSetup[r]) |-> toSetup[r][i].id]

Supported == {"CudaIpc"} \cup AllIBTransports

(***************************************************************************)
(* The properties.                                                         *)
(***************************************************************************)
\* C1: within one setup() call over the N Setuppables enqueued before it,
\* the hooks invoked so far are a prefix of: beginSetup on all N in enqueue
\* order, then endSetup on all N in enqueue order; and when the call returns
\* it has invoked exactly that sequence.
C1_TwoPhaseOrder ==
  \A r \in Ranks :
    pc[r] # "idle" =>
      /\ IsPrefix(HookEvents(callLog[r]), ExpectedHooks(callSet[r]))
      /\ Returning(r) => HookEvents(callLog[r]) = ExpectedHooks(callSet[r])

\* A setup() call about to return after a receiver and, behind it in the
\* queue, a sender.
C1_Witness ==
  \E r \in Ranks :
    /\ Returning(r)
    /\ \E i, j \in DOMAIN toSetup[r] :
         i < j /\ toSetup[r][i].kind = "receiver" /\ toSetup[r][j].kind = "sender"

C3_IpcOnlyWithinHost ==
  \A r \in Ranks :
    /\ \A i \in DOMAIN connections[r] :
         connections[r][i].transport = "CudaIpc" =>
           rankToHash[connections[r][i].remoteRank] = rankToHash[r]
    /\ (lastError[r] # NoError /\ lastError[r].transport = "CudaIpc") =>
         /\ lastError[r].code = "InvalidUsage"
         /\ rankToHash[lastError[r].remoteRank] # rankToHash[r]
    /\ lastError[r].code = "InvalidUsage" => lastError[r].transport = "CudaIpc"

\* A rank that has connected over CudaIpc to a rank of its host and has just
\* been refused a rank of another host.
C3_Witness ==
  \E r \in Ranks :
    /\ lastError[r].code = "InvalidUsage"
    /\ \E i \in DOMAIN connections[r] : connections[r][i].transport = "CudaIpc"

\* C4: connectOnSetup with a transport that is neither CudaIpc nor an IB
\* transport fails with InternalError (and registers nothing), and a failed
\* connectOnSetup leaves the rank's connection list and pending queue as
\* they were.
C4_FailedConnectChangesNothing ==
  /\ [](\A r \in Ranks :
          /\ \A i \in DOMAIN connections[r] :
               connections[r][i].transport \in Supported
          /\ \A i \in DOMAIN toSetup[r] :
               toSetup[r][i].kind = "connection" =>
                 toSetup[r][i].transport \in Supported
          /\ (lastError[r] # NoError /\ lastError[r].transport \notin Supported)
               => lastError[r].code = "InternalError")
  /\ [][\A r \in Ranks :
          lastError'[r] # NoError =>
            connections'[r] = connections[r] /\ toSetup'[r] = toSetup[r]]_vars

\* A rank with a connection registered and pending whose last call failed
\* with InternalError.
C4_Witness ==
  \E r \in Ranks :
    /\ lastError[r].code = "InternalError"
    /\ connections[r] # <<>>
    /\ toSetup[r] # <<>>

\* C5: an enqueueing call does no bootstrap traffic; a message enters the
\* bootstrap only as the send of the MemorySender the first loop of its
\* rank's setup() is at, and leaves it only in the second loop of the
\* receiving rank's setup(); a future is unset as long as endSetup has not
\* run on its receiver, and set once the setup() call that processed the
\* receiver has returned.
C5_ExchangeOnlyInsideSetup ==
  /\ [](\A r \in Ranks : \A i \in DOMAIN futures[r] :
          /\ nEnd[r][futures[r][i].id] = 0 => futures[r][i].value = <<>>
          /\ futures[r][i].id \notin Range(enq[r]) \cup Range(callSet[r])
               => futures[r][i].value # <<>>)
  /\ [][\A r \in Ranks :
          Len(toSetup'[r]) > Len(toSetup[r]) => channel' = channel]_vars
  /\ [][\A l \in Links :
          /\ Len(channel'[l]) > Len(channel[l]) =>
               /\ pc[l[1]] = "begin"
               /\ idx[l[1]] <= Len(toSetup[l[1]])
               /\ LET obj == toSetup[l[1]][idx[l[1]]] IN
                    /\ obj.kind = "sender"
                    /\ nBegin[l[1]][obj.id] = 0
                    /\ channel'[l] = Append(channel[l], serialize(obj.memory))
          /\ Len(channel'[l]) < Len(channel[l]) => pc[l[2]] = "end"]_vars

\* A rank back from setup() holding a fulfilled future.
C5_Witness ==
  \E r \in Ranks :
    /\ pc[r] = "idle"
    /\ toSetup[r] = <<>>
    /\ \E i \in DOMAIN futures[r] : futures[r][i].value # <<>>

\* The futures of rank a for descriptors of rank b with a tag, in the order
\* of the recvMemoryOnSetup calls.
FuturesFor(a, b, tag) ==
  LET From(f) == f.remoteRank = b /\ f.tag = tag
  IN SelectSeq(futures[a], From)

SameDescriptor(m, n) ==
  m.rank = n.rank /\ m.size = n.size /\ m.transports = n.transports

\* C6: for all ranks a, b and every tag, the k-th future of a for (b, tag),
\* once fulfilled, holds a descriptor equal in owning rank, size and
\* transport flags to the k-th region b handed to sendMemoryOnSetup for
\* (a, tag).
C6_ExchangeRoundTripInOrder ==
  \A a \in Ranks, b \in Ranks, tag \in Tags :
    LET futs == FuturesFor(a, b, tag)
        sent == sentLog[<<b, a, tag>>]
    IN \A k \in DOMAIN futs :
         futs[k].value # <<>> =>
           /\ k <= Len(sent)
           /\ SameDescriptor(futs[k].value[1], sent[k])
           /\ futs[k].value[1].rank = b

\* Two descriptors sent with one tag and received, both ranks back from
\* setup().
C6_Witness ==
  \E a \in Ranks, b \in Ranks, tag \in Tags :
    LET futs == FuturesFor(a, b, tag) IN
      /\ Len(futs) = 2
      /\ futs[1].value # <<>> /\ futs[2].value # <<>>
      /\ ~SameDescriptor(futs[1].value[1], futs[2].value[1])
      /\ pc[a] = "idle" /\ pc[b] = "idle"

\* The Setuppables of the queue of rank r a loop of its setup() has yet to
\* come to: all of them in the first loop for what the second does.
ToCome(r, phase) ==
  IF pc[r] = phase THEN SubSeq(toSetup[r], idx[r], Len(toSetup[r]))
  ELSE IF pc[r] = "begin" /\ phase = "end" THEN toSetup[r]
  ELSE <<>>

RecvsToCome(r, p, tag) ==
  LET Is(o) == o.kind = "receiver" /\ o.remoteRank = p /\ o.tag = tag
  IN Len(SelectSeq(ToCome(r, "end"), Is))

SendsToCome(p, r, tag) ==
  LET Is(o) == o.kind = "sender" /\ o.remoteRank = r /\ o.tag = tag
  IN Len(SelectSeq(ToCome(p, "begin"), Is))

\* Every rank is inside setup(), and every receive a rank has yet to make
\* is matched by a message in flight or a send its peer has yet to make in
\* its own call.
MatchedRound ==
  /\ \A r \in Ranks : pc[r] # "idle"
  /\ \A r \in Ranks, p \in Ranks, tag \in Tags :
       RecvsToCome(r, p, tag)
         <= Len(channel[<<p, r, tag>>]) + SendsToCome(p, r, tag)

\* C7: from a state in which every rank is inside setup() and every queued
\* receive is matched by a queued send of its peer with the same tag, every
\* rank's setup() returns.
C7_MatchedRoundReturns ==
  \A r \in Ranks : MatchedRound ~> (pc[r] = "idle")

\* Both ranks inside setup(), each with a receive from the other queued
\* before its send to the other.
C7_Witness ==
  /\ MatchedRound
  /\ \A r \in Ranks :
       /\ Len(toSetup[r]) = 2
       /\ toSetup[r][1].kind = "receiver"
       /\ toSetup[r][2].kind = "sender"
       /\ pc[r] = "begin" /\ idx[r] = 1

\* The second loop of the rank's setup() is at a receiver for which no
\* message is in flight.
Blocked(r) ==
  /\ pc[r] = "end"
  /\ idx[r] <= Len(toSetup[r])
  /\ toSetup[r][idx[r]].kind = "receiver"
  /\ channel[<<toSetup[r][idx[r]].remoteRank, r, toSetup[r][idx[r]].tag>>] = <<>>

\* C8: a rank whose setup() is at a receiver with no message in flight for
\* it stays there in every step, its queue and its futures as they are: it
\* leaves only after the peer has sent with that tag.
C8_UnmatchedRecvBlocks ==
  [][\A r \in Ranks :
       Blocked(r) =>
         /\ pc'[r] = "end" /\ idx'[r] = idx[r]
         /\ toSetup'[r] = toSetup[r]
         /\ futures'[r] = futures[r]]_vars

\* A rank blocked at a receive with one tag whose peer sent with the other
\* tag only, and has returned from setup() with nothing left to send.
C8_Witness ==
  \E r \in Ranks, p \in Ranks, t \in Tags, u \in Tags :
    /\ Blocked(r)
    /\ toSetup[r][idx[r]].remoteRank = p /\ toSetup[r][idx[r]].tag = t
    /\ sentLog[<<p, r, t>>] = <<>>
    /\ u # t /\ channel[<<p, r, u>>] # <<>>
    /\ pc[p] = "idle" /\ toSetup[p] = <<>>

\* C9: on every rank, every context ever constructed is the one the cache
\* holds for its transport (so at most one per transport), a lookup returns
\* the context the cache holds, and an entry of the cache never changes.
C9_OneIbContextPerTransport ==
  /\ [](\A r \in Ranks :
          /\ \A i \in DOMAIN ibCreated[r] : ibContexts[r][ibCreated[r][i]] = i
          /\ \A t \in AllIBTransports :
               ibContexts[r][t] # 0 =>
                 /\ ibContexts[r][t] \in DOMAIN ibCreated[r]
                 /\ ibCreated[r][ibContexts[r][t]] = t
          /\ lastCtx[r] # <<>> =>
               /\ lastCtx[r][2] # 0
               /\ lastCtx[r][2] = ibContexts[r][lastCtx[r][1]])
  /\ [][\A r \in Ranks, t \in AllIBTransports :
          ibContexts[r][t] # 0 => ibContexts'[r][t] = ibContexts[r][t]]_vars

\* A rank with two contexts whose last lookup returned the first of them.
C9_Witness ==
  \E r \in Ranks :
    /\ Len(ibCreated[r]) = 2
    /\ lastCtx[r] # <<>> /\ lastCtx[r][2] = 1
    /\ connections[r] # <<>>

(***************************************************************************)
(* The Executor: execution plans.  A plan is consumed through its queries; *)
(* the two plans here connect every rank to every other rank.              *)
(***************************************************************************)
\* Contexts the cache holds over a run of SpecExec.
MaxContexts == 2

\* communicator.cc:218 Executor::Impl::nranks
nranks == Cardinality(Ranks)

\* The ranks of a job of more than two ranks.
MaxWorld == 4

World == 0..(MaxWorld - 1)

\* The plans written for the ranks of World; the other plans are written for
\* the two ranks whose Communicators are modelled.
WorldPlans == {"scatter"}

\* The ranks a plan is written for, and the other ranks of a rank's job.
PlanRanks(plan) == IF plan \in WorldPlans THEN World ELSE Ranks

PlanPeers(plan, rank) == PlanRanks(plan) \ {rank}

\* communicator.cc:218 Executor::Impl::nranks of the job that runs a plan.
nranksOf(plan) == IF plan \in WorldPlans THEN Cardinality(World) ELSE nranks

RECURSIVE SetToSeq(_)
SetToSeq(S) ==
  IF S = {} THEN <<>>
  ELSE LET m == CHOOSE x \in S : \A y \in S : x <= y
       IN <<m>> \o SetToSeq(S \ {m})

ChannelInfo(channelType, srcBufferType, dstBufferType, connectedPeers) ==
  [channelType |-> channelType, srcBufferType |-> srcBufferType,
   dstBufferType |-> dstBufferType, connectedPeers |-> connectedPeers]

\* ExecutionPlan::Impl::channelInfos of a rank, in plan order.  The plan
\* "sendrecv" has channels one way only: rank 0 has a channel of one kind to
\* its peers, the other ranks have a channel of the other kind to theirs.
\* The plan "scatter" has, for every rank, two channel infos of one kind to
\* the ranks above it, by the parity of their distance, and one of the other
\* kind to the next rank of the ring.
channelInfos(plan, rank) ==
  IF plan = "allgather"
  THEN <<ChannelInfo("SM", "INPUT", "OUTPUT", SetToSeq(Peers(rank)))>>
  ELSE IF plan = "sendrecv"
  THEN IF rank = 0
       THEN <<ChannelInfo("SM", "INPUT", "OUTPUT", SetToSeq(Peers(rank)))>>
       ELSE <<ChannelInfo("PROXY", "INPUT", "OUTPUT", SetToSeq(Peers(rank)))>>
  ELSE IF plan = "scatter"
  THEN SelectSeq(
         <<ChannelInfo("SM", "INPUT", "OUTPUT",
             SetToSeq({p \in World : p > rank /\ (p - rank) % 2 = 1})),
           ChannelInfo("SM", "INPUT", "SCRATCH",
             SetToSeq({p \in World : p > rank /\ (p - rank) % 2 = 0})),
           ChannelInfo("PROXY", "SCRATCH", "OUTPUT",
             <<(rank + 1) % MaxWorld>>)>>,
         LAMBDA info : info.connectedPeers # <<>>)
  ELSE <<ChannelInfo("SM", "INPUT", "SCRATCH", SetToSeq(Peers(rank))),
         ChannelInfo("PROXY", "SCRATCH", "OUTPUT", SetToSeq(Peers(rank)))>>

\* A channel info of the list names the rank among its connected peers.
namesPeer(infos, rank) ==
  \E info \in Range(infos) : rank \in Range(info.connectedPeers)

\* ExecutionPlan::Impl::getChannelInfos(rank, channelType)
getChannelInfosOfType(plan, rank, channelType) ==
  SelectSeq(channelInfos(plan, rank),
            LAMBDA info : info.channelType = channelType)

\* ExecutionPlan::Impl::getChannelInfos(rank, bufferType)
getChannelInfosOfBuffer(plan, rank, bufferType) ==
  SelectSeq(channelInfos(plan, rank),
            LAMBDA info : info.dstBufferType = bufferType)

RECURSIVE ConcatAll(_)
ConcatAll(seqs) ==
  IF seqs = <<>> THEN <<>> ELSE Head(seqs) \o ConcatAll(Tail(seqs))

\* ExecutionPlan::Impl::getChannelInfosByDstRank: the channel infos of the
\* other ranks that end in this rank's buffer of the given role, each with
\* the rank it comes from as its connected peer.
getChannelInfosByDstRank(plan, rank, bufferType) ==
  LET redirected(hit, p) ==
        [i \in DOMAIN hit |-> [hit[i] EXCEPT !.connectedPeers = <<p>>]]
      from(p) ==
        redirected(SelectSeq(channelInfos(plan, p),
                     LAMBDA info : /\ info.dstBufferType = bufferType
                                   /\ rank \in Range(info.connectedPeers)),
                   p)
      fromAll(others) == ConcatAll([i \in DOMAIN others |-> from(others[i])])
  IN fromAll(SetToSeq(PlanPeers(plan, rank)))

\* ExecutionPlan::Impl::getUnpairedChannelInfos: the channels of a kind that
\* other ranks have toward this rank and this rank does not have toward them.
getUnpairedChannelInfos(plan, rank, n, channelType) ==
  LET toward(a, b) == namesPeer(getChannelInfosOfType(plan, a, channelType), b)
      infosFrom(ps) ==
        [i \in DOMAIN ps |->
           ChannelInfo(channelType, "INPUT", "INPUT", <<ps[i]>>)]
  IN infosFrom(SetToSeq({p \in PlanPeers(plan, rank) :
                           p < n /\ toward(p, rank) /\ ~toward(rank, p)}))

\* ExecutionPlan::Impl::getConnectedPeers
getConnectedPeers(plan, rank) ==
  SetToSeq({p \in PlanPeers(plan, rank) :
              \/ namesPeer(channelInfos(plan, rank), p)
              \/ namesPeer(channelInfos(plan, p), rank)})

\* ExecutionPlan::Impl::getConnectedBufferTypes
getConnectedBufferTypes(plan, rank) ==
  SelectSeq(<<"INPUT", "OUTPUT", "SCRATCH">>,
            LAMBDA bufferType :
              getChannelInfosOfBuffer(plan, rank, bufferType) # <<>>)

\* ExecutionPlan::Impl::getThreadblockCount
getThreadblockCount(plan, rank) == IF plan = "allgather" THEN 1 ELSE 2

\* ExecutionPlan::Impl::getNThreadsPerBlock
getNThreadsPerBlock(plan) == IF plan = "allgather" THEN 1024 ELSE 512

\* ExecutionPlan::Impl::getScratchBufferSize
getScratchBufferSize(plan, rank, sendBufferSize, recvBufferSize) ==
  IF plan = "allgather" THEN 0 ELSE sendBufferSize + recvBufferSize

\* ExecutionPlan::Impl::reset followed by loadExecutionPlan
loadExecutionPlan(inputSize, outputSize, srcOffset, dstOffset) ==
  [loaded |-> "full", inputSize |-> inputSize, outputSize |-> outputSize,
   srcOffset |-> srcOffset, dstOffset |-> dstOffset]

\* ExecutionPlan::Impl::operationsReset followed by lightLoadExecutionPlan
lightLoadExecutionPlan(inputSize, outputSize, srcOffset, dstOffset) ==
  [loaded |-> "light", inputSize |-> inputSize, outputSize |-> outputSize,
   srcOffset |-> srcOffset, dstOffset |-> dstOffset]

\* ExecutionPlan::Impl::getOperations: one put per chunk of four bytes of the
\* message, addressed from the offsets the plan was loaded with; the second
\* threadblock of a plan ends with a signal.
getOperations(impl, plan, rank, threadblock) ==
  LET n == impl.inputSize \div 4
      puts == [i \in 1..n |->
                 [type |-> "PUT", size |-> 4,
                  srcOffset |-> impl.srcOffset + 4 * (i - 1),
                  dstOffset |-> impl.dstOffset + rank * impl.inputSize
                                + 4 * (i - 1)]]
  IN IF threadblock = 0 THEN puts
     ELSE puts \o <<[type |-> "SIGNAL", size |-> 0, srcOffset |-> 0,
                     dstOffset |-> 0]>>

\* The entries (channel info, peer) of a list of channel infos, in order.
InfoPeers(infos) ==
  ConcatAll([i \in DOMAIN infos |->
               [j \in DOMAIN infos[i].connectedPeers |->
                  [info |-> infos[i], peer |-> infos[i].connectedPeers[j]]]])

\* ExecutionPlan::Impl::threadblockSMChannelMap and threadblockProxyChannelMap:
\* every threadblock uses every channel of the rank; in the plan "scatter"
\* the first threadblock uses them from the last to the first and the
\* others use every second one.
threadblockChannelMap(plan, rank, threadblock, channelType) ==
  LET mapOver(n) ==
        IF plan = "scatter"
        THEN IF threadblock = 0 THEN [i \in 1..n |-> n - i]
             ELSE [i \in 1..((n + 1) \div 2) |-> 2 * (i - 1)]
        ELSE [i \in 1..n |-> i - 1]
  IN mapOver(Len(InfoPeers(getChannelInfosOfType(plan, rank, channelType))))

(***************************************************************************)
(* The Executor: building an execution context.  The handshakes the cold   *)
(* path drives through the Communicator are taken by their outcome: the    *)
(* connection made to a peer, the descriptor received from a peer.         *)
(***************************************************************************)
\* communicator.cc:152 ExecutionContextKey
ExecutionContextKey(sendBuff, recvBuff, sendBuffSize, recvBuffSize, plan) ==
  [sendBuff |-> sendBuff, recvBuff |-> recvBuff, sendBuffSize |-> sendBuffSize,
   recvBuffSize |-> recvBuffSize, plan |-> plan]

\* A variant of the key comparison that leaves the recv capacity out.
KeyEqualsNoRecvSize(a, b) ==
  /\ a.sendBuff = b.sendBuff
  /\ a.recvBuff = b.recvBuff
  /\ a.sendBuffSize = b.sendBuffSize
  /\ a.plan = b.plan

\* communicator.cc:159 ExecutionContextKey::operator==
KeyEquals(a, b) ==
  /\ a.sendBuff = b.sendBuff
  /\ a.recvBuff = b.recvBuff
  /\ a.sendBuffSize = b.sendBuffSize
  /\ a.recvBuffSize = b.recvBuffSize
  /\ a.plan = b.plan

\* contexts.find(key): the entries whose key compares equal.
find(cache, key) == {e \in cache : KeyEquals(e.key, key)}

\* communicator.cc:184 inSameNode
inSameNode(rank1, rank2, n) == (rank1 \div n) = (rank2 \div n)

\* communicator.cc:282 the transport of the connection to a peer
transportTo(rank, peer, n) ==
  IF inSameNode(rank, peer, n) THEN "CudaIpc" ELSE IBs[(rank % n) + 1]

\* communicator.cc:261 getTransportFlags
getTransportFlags(infos, rank, n) ==
  UNION { IF infos[i].channelType = "SM" THEN {"CudaIpc"}
          ELSE IF infos[i].channelType = "PROXY"
          THEN { transportTo(rank, infos[i].connectedPeers[j], n) :
                   j \in DOMAIN infos[i].connectedPeers }
          ELSE {} : i \in DOMAIN infos }

\* communicator.cc:278 setupConnections: peer -> the connection made to it.
setupConnections(rank, plan, n) ==
  [peer \in Range(getConnectedPeers(plan, rank)) |->
     [remoteRank |-> peer, transport |-> transportTo(rank, peer, n)]]

\* The address of the scratch buffer of a rank's context for a key.
ScratchAddress(key) == key.sendBuff + key.recvBuff

\* communicator.cc:294 getBufferInfo: the address and size of a buffer role.
getBufferInfo(key, rank, bufferType) ==
  IF bufferType = "INPUT" THEN <<key.sendBuff, key.sendBuffSize>>
  ELSE IF bufferType = "OUTPUT" THEN <<key.recvBuff, key.recvBuffSize>>
  ELSE <<ScratchAddress(key),
         getScratchBufferSize(key.plan, rank, key.sendBuffSize,
                              key.recvBuffSize)>>

\* communicator.cc:320 the memory a rank registers for a buffer role.
registeredFor(rank, key, bufferType, n) ==
  LET register(bufferInfo) ==
        registerMemory(rank, bufferInfo[1], bufferInfo[2],
                       getTransportFlags(
                         getChannelInfosByDstRank(key.plan, rank, bufferType),
                         rank, n))
  IN register(getBufferInfo(key, rank, bufferType))

\* communicator.cc:292 setupRegisteredMemories: (role, peer) -> the descriptor
\* received from the peer, which runs the same plan on buffers of the same
\* placement.
setupRegisteredMemories(key, rank, n) ==
  LET peersOf(bufferType) ==
        {e.peer : e \in Range(InfoPeers(
                     getChannelInfosOfBuffer(key.plan, rank, bufferType)))}
      keys == UNION {{<<bufferType, peer>> : peer \in peersOf(bufferType)} :
                       bufferType \in Range(getConnectedBufferTypes(key.plan,
                                                                   rank))}
  IN [k \in keys |-> registeredFor(k[2], key, k[1], n)]

\* communicator.cc:344 processChannelInfos over the rank's channel infos of a
\* kind and then the unpaired ones: the semaphores built, each a new object
\* (its place in the vector stands for it) over the connection to its peer.
buildSemaphores(context, plan, rank, channelType) ==
  LET over(es) ==
        [i \in DOMAIN es |->
           [channelType |-> channelType, id |-> i - 1,
            connection |-> context.connections[es[i].peer]]]
  IN over(InfoPeers(getChannelInfosOfType(plan, rank, channelType))
          \o InfoPeers(getUnpairedChannelInfos(plan, rank, nranksOf(plan),
                                               channelType)))

\* communicator.cc:404 context.registeredMemories[{bufferType, peer}]:
\* operator[] of the map yields the descriptor stored under the key, and a
\* default-constructed one, stored under the key by the lookup, if none is.
memoryAt(registeredMemories, k) ==
  IF k \in DOMAIN registeredMemories THEN registeredMemories[k] ELSE NoMemory

\* The keys the channels of a kind look up in context.registeredMemories.
keysLookedUp(plan, rank, channelType) ==
  {<<e.info.dstBufferType, e.peer>> :
     e \in Range(InfoPeers(getChannelInfosOfType(plan, rank, channelType)))}

\* Channels that take their semaphores with an index that starts again for
\* every channel info.
buildChannelsIndexPerInfo(context, key, rank, channelType, n) ==
  LET infos == getChannelInfosOfType(key.plan, rank, channelType)
      es == InfoPeers(infos)
      semaphores == IF channelType = "SM" THEN context.smSemaphores
                    ELSE context.proxySemaphores
      within(i) == Cardinality({k \in 1..i : es[k].info = es[i].info})
  IN [i \in DOMAIN es |->
        [semaphore |-> semaphores[within(i)],
         dst |-> memoryAt(context.registeredMemories,
                          <<es[i].info.dstBufferType, es[i].peer>>),
         src |-> IF channelType = "SM"
                 THEN getBufferInfo(key, rank, es[i].info.srcBufferType)[1]
                 ELSE registerMemory(rank,
                        getBufferInfo(key, rank, es[i].info.srcBufferType)[1],
                        getBufferInfo(key, rank, es[i].info.srcBufferType)[2],
                        getTransportFlags(infos, rank, n))]]

\* Channels that look their remote memory up under the source role of their
\* channel info.
buildChannelsOfSourceRole(context, key, rank, channelType, n) ==
  LET infos == getChannelInfosOfType(key.plan, rank, channelType)
      es == InfoPeers(infos)
      semaphores == IF channelType = "SM" THEN context.smSemaphores
                    ELSE context.proxySemaphores
  IN [i \in DOMAIN es |->
        [semaphore |-> semaphores[i],
         dst |-> memoryAt(context.registeredMemories,
                          <<es[i].info.srcBufferType, es[i].peer>>),
         src |-> IF channelType = "SM"
                 THEN getBufferInfo(key, rank, es[i].info.srcBufferType)[1]
                 ELSE registerMemory(rank,
                        getBufferInfo(key, rank, es[i].info.srcBufferType)[1],
                        getBufferInfo(key, rank, es[i].info.srcBufferType)[2],
                        getTransportFlags(infos, rank, n))]]

\* communicator.cc:397 the channels of a kind: each bound to the semaphore
\* at its index, the peer's descriptor for the destination role, and the
\* local source buffer.
buildChannels(context, key, rank, channelType, n) ==
  LET infos == getChannelInfosOfType(key.plan, rank, channelType)
      semaphores == IF channelType = "SM" THEN context.smSemaphores
                    ELSE context.proxySemaphores
      src(bufferInfo) ==
        IF channelType = "SM" THEN bufferInfo[1]
        ELSE registerMemory(rank, bufferInfo[1], bufferInfo[2],
                            getTransportFlags(infos, rank, n))
      over(es) ==
        [i \in DOMAIN es |->
           [semaphore |-> semaphores[i],
            dst |-> memoryAt(context.registeredMemories,
                             <<es[i].info.dstBufferType, es[i].peer>>),
            src |-> src(getBufferInfo(key, rank, es[i].info.srcBufferType))]]
  IN over(InfoPeers(infos))

\* communicator.cc:339 setupChannels
setupChannels(context, key, rank, n) ==
  LET withKeys(keys) ==
        [k \in DOMAIN context.registeredMemories \cup keys |->
           memoryAt(context.registeredMemories, k)]
      withChannels(withSm) ==
        [withSm EXCEPT
           !.smChannels = buildChannels(withSm, key, rank, "SM", n),
           !.proxyChannels = buildChannels(withSm, key, rank, "PROXY", n),
           !.registeredMemories =
              withKeys(keysLookedUp(key.plan, rank, "SM")
                       \cup keysLookedUp(key.plan, rank, "PROXY"))]
  IN withChannels(
       [context EXCEPT
          !.smSemaphores = buildSemaphores(context, key.plan, rank, "SM"),
          !.proxySemaphores =
             buildSemaphores(context, key.plan, rank, "PROXY")])

\* A serialization that takes the i-th handle of a threadblock from the i-th
\* channel of the context.
setupDeviceExecutionPlanByPlace(context, rank, plan, impl) ==
  [t \in 1..getThreadblockCount(plan, rank) |->
     LET ops == getOperations(impl, plan, rank, t - 1)
         smMap == threadblockChannelMap(plan, rank, t - 1, "SM")
         proxyMap == threadblockChannelMap(plan, rank, t - 1, "PROXY")
     IN [nOperations |-> Len(ops),
         nSmChannels |-> Len(smMap),
         nProxyChannels |-> Len(proxyMap),
         smChannels |-> [i \in DOMAIN smMap |-> context.smChannels[i]],
         proxyChannels |->
           [i \in DOMAIN proxyMap |-> context.proxyChannels[i]],
         operations |-> ops]]

\* communicator.cc:420 setupDeviceExecutionPlan
setupDeviceExecutionPlan(context, rank, plan, impl) ==
  LET deviceExecutionPlan(ops, smMap, proxyMap) ==
        [nOperations |-> Len(ops),
         nSmChannels |-> Len(smMap),
         nProxyChannels |-> Len(proxyMap),
         smChannels |-> [i \in DOMAIN smMap |-> context.smChannels[smMap[i] + 1]],
         proxyChannels |->
           [i \in DOMAIN proxyMap |-> context.proxyChannels[proxyMap[i] + 1]],
         operations |-> ops]
  IN [t \in 1..getThreadblockCount(plan, rank) |->
        deviceExecutionPlan(getOperations(impl, plan, rank, t - 1),
                            threadblockChannelMap(plan, rank, t - 1, "SM"),
                            threadblockChannelMap(plan, rank, t - 1, "PROXY"))]

\* communicator.cc:241 a default-constructed ExecutionContext
EmptyContext ==
  [proxyService |-> "none", connections |-> <<>>, registeredMemories |-> <<>>,
   smSemaphores |-> <<>>, proxySemaphores |-> <<>>, smChannels |-> <<>>,
   proxyChannels |-> <<>>, deviceExecutionPlans |-> <<>>, scratchBuffer |-> 0,
   scratchBufferSize |-> 0, deviceExecutionPlansBuffer |-> <<>>,
   nthreadsPerBlock |-> 0]

\* communicator.cc:238 the cold path up to the insertion: the context built.
buildContext(key, rank, impl, n) ==
  LET c1 == [EmptyContext EXCEPT
               !.scratchBuffer = ScratchAddress(key),
               !.scratchBufferSize =
                  getScratchBufferSize(key.plan, rank, key.sendBuffSize,
                                       key.recvBuffSize),
               !.proxyService = "created",
               !.nthreadsPerBlock = getNThreadsPerBlock(key.plan)]
      c3 == [c1 EXCEPT
               !.connections = setupConnections(rank, key.plan, n),
               !.registeredMemories = setupRegisteredMemories(key, rank, n)]
      serialized(c4) ==
        [c4 EXCEPT !.deviceExecutionPlans =
                      setupDeviceExecutionPlan(c4, rank, key.plan, impl)]
      started(c5) ==
        [c5 EXCEPT !.deviceExecutionPlansBuffer = c5.deviceExecutionPlans,
                   !.proxyService = "started"]
  IN started(serialized(setupChannels(c3, key, rank, n)))

\* A warm path that also replaces the proxy service of the context.
rebuildContextNewProxy(context, rank, plan, impl) ==
  LET plans == setupDeviceExecutionPlan(context, rank, plan, impl)
  IN [context EXCEPT !.deviceExecutionPlans = plans,
                     !.deviceExecutionPlansBuffer = plans,
                     !.proxyService = "created"]

\* communicator.cc:229 the warm path: the plans and their buffer are redone.
rebuildContext(context, rank, plan, impl) ==
  LET plans == setupDeviceExecutionPlan(context, rank, plan, impl)
  IN [context EXCEPT !.deviceExecutionPlans = plans,
                     !.deviceExecutionPlansBuffer = plans]

(***************************************************************************)
(* The Executor: setupExecutionContext.                                    *)
(***************************************************************************)
\* The stages of the cold path a failure can come from, and no failure.
FailInputs == {"none", "connections", "memories", "channels",
               "serialization", "proxy"}

\* A cold path that puts its context into the cache before the stages run.
coldInsertEarly(cache, key, context, failAt) ==
  cache \cup {[key |-> key, context |-> context]}

\* communicator.cc:257 the insertion that ends the cold path: an error that a
\* stage raises leaves setupExecutionContext before it.
coldInsert(cache, key, context, failAt) ==
  IF failAt # "none" THEN cache
  ELSE cache \cup {[key |-> key, context |-> context]}

\* communicator.cc:222 setupExecutionContext.  failAt names the stage of the
\* cold path that raises an error in this call, if the call gets to it.
SetupExecutionContext(rank, sendbuff, recvbuff, inputMessageSize, outputMessageSize, contsSrcOffset, constDstOffset, sendBufferSize, recvBufferSize, plan, failAt) ==
  LET key == ExecutionContextKey(sendbuff, recvbuff, sendBufferSize,
                                 recvBufferSize, plan)
      done(path, failed) ==
        [rank |-> rank, key |-> key, path |-> path,
         outcome |-> IF failed THEN "raised" ELSE "returned",
         stage |-> IF failed THEN failAt ELSE "none"]
  IN
  /\ IF find(contexts, key) # {}
     THEN LET impl == lightLoadExecutionPlan(inputMessageSize, outputMessageSize,
                                             contsSrcOffset, constDstOffset)
          IN /\ planImpl' = [planImpl EXCEPT ![plan] = impl]
             /\ contexts' =
                  { IF KeyEquals(e.key, key)
                    THEN [e EXCEPT !.context =
                                     rebuildContext(@, rank, plan, impl)]
                    ELSE e : e \in contexts }
             /\ lastCall' = done("warm", FALSE)
     ELSE LET impl == loadExecutionPlan(inputMessageSize, outputMessageSize,
                                        contsSrcOffset, constDstOffset)
              failed == failAt # "none"
          IN /\ planImpl' = [planImpl EXCEPT ![plan] = impl]
             /\ contexts' =
                  coldInsert(contexts, key,
                             buildContext(key, rank, impl, nranksPerNode),
                             failAt)
             /\ lastCall' = done("cold", failed)
  /\ UNCHANGED <<commVars, nranksPerNode, run, caches>>

\* The keys of the calls: one key, and the keys that differ from it in one
\* of the five fields.
BaseKey == ExecutionContextKey(4096, 8192, 64, 64, "allgather")

KeyInputs ==
  {BaseKey,
   [BaseKey EXCEPT !.sendBuff = 12288],
   [BaseKey EXCEPT !.recvBuff = 16384],
   [BaseKey EXCEPT !.sendBuffSize = 128],
   [BaseKey EXCEPT !.recvBuffSize = 128],
   [BaseKey EXCEPT !.plan = "allreduce"]}

\* The message sizes and offsets of the calls.
MessageInputs ==
  {[inputSize |-> 8, outputSize |-> 16, srcOffset |-> 0, dstOffset |-> 0],
   [inputSize |-> 4, outputSize |-> 8, srcOffset |-> 8, dstOffset |-> 16]}

\* An Executor is called with the rank of its Communicator: every call has
\* the rank of the first one.
NextExec ==
  \E rank \in Ranks, k \in KeyInputs, m \in MessageInputs, f \in FailInputs :
    /\ lastCall.path = "none" \/ lastCall.rank = rank
    /\ find(contexts, k) # {} \/ Cardinality(contexts) < MaxContexts
    /\ f = "none" \/ find(contexts, k) = {}
    /\ UNCHANGED auxVars
    /\ SetupExecutionContext(rank, k.sendBuff, k.recvBuff, m.inputSize,
                             m.outputSize, m.srcOffset, m.dstOffset,
                             k.sendBuffSize, k.recvBuffSize, k.plan, f)

SpecExec == Init /\ [][NextExec]_vars

(***************************************************************************)
(* The context cache.                                                      *)
(***************************************************************************)
\* The cache holds an entry whose five key fields equal those of the key.
HoldsEntryFor(cache, k) ==
  \E e \in cache :
    /\ e.key.sendBuff = k.sendBuff
    /\ e.key.recvBuff = k.recvBuff
    /\ e.key.sendBuffSize = k.sendBuffSize
    /\ e.key.recvBuffSize = k.recvBuffSize
    /\ e.key.plan = k.plan

\* The fields two keys differ in.
DifferingFields(a, b) == {f \in DOMAIN a : a[f] # b[f]}

\* C10: a setupExecutionContext call takes the warm path if and only if the
\* cache, as it was before the call, holds an entry whose send base address,
\* recv base address, send capacity, recv capacity and plan name all equal
\* those of the call, whatever the message sizes and offsets are.  Otherwise
\* it takes the cold path, and a cold build that returns adds one entry for
\* the key and leaves every entry that was there as it was; the warm path
\* adds no entry.
C10_WarmIffKeyCached ==
  [][(lastCall' # lastCall \/ planImpl' # planImpl) =>
       /\ lastCall'.path \in {"warm", "cold"}
       /\ (lastCall'.path = "warm") <=> HoldsEntryFor(contexts, lastCall'.key)
       /\ (lastCall'.path = "cold" /\ lastCall'.outcome = "returned") =>
            /\ contexts \subseteq contexts'
            /\ Cardinality(contexts') = Cardinality(contexts) + 1
            /\ \E e \in contexts' \ contexts : e.key = lastCall'.key
       /\ lastCall'.path = "warm" =>
            {e.key : e \in contexts'} = {e.key : e \in contexts}]_vars

\* C10 witness: a warm call has returned for a key while the cache holds a
\* second entry whose key differs from it in exactly one field, and the
\* message of the call is not the one the entry was built with.
C10_Witness ==
  /\ lastCall.path = "warm"
  /\ lastCall.outcome = "returned"
  /\ planImpl[lastCall.key.plan].loaded = "light"
  /\ planImpl[lastCall.key.plan].srcOffset # 0
  /\ \E e1 \in contexts, e2 \in contexts :
       /\ e1.key = lastCall.key
       /\ Cardinality(DifferingFields(e1.key, e2.key)) = 1

(***************************************************************************)
(* The cold path call by call: every rank's Executor builds its context    *)
(* through the rank's Communicator, one call at a time, while the other    *)
(* ranks do the same for the same plan.                                    *)
(***************************************************************************)
\* One call or stage of the cold path.
Call(op, peer, transport, bufferType, channelType) ==
  [op |-> op, peer |-> peer, transport |-> transport,
   bufferType |-> bufferType, channelType |-> channelType]

Stage(op) == Call(op, -1, "Unknown", "NONE", "NONE")

\* communicator.cc:306 getConnectedPeers: the peers of channel infos, as an
\* ordered list without repetition.
peersOf(infos) == SetToSeq({e.peer : e \in Range(InfoPeers(infos))})

\* setupConnections calling setup() after every connectOnSetup and once more
\* after the loop.
connectionCallsSetupEach(rank, plan, n) ==
  LET connectedPeers == getConnectedPeers(plan, rank)
  IN ConcatAll([i \in DOMAIN connectedPeers |->
        <<Call("connectOnSetup", connectedPeers[i],
               transportTo(rank, connectedPeers[i], n), "NONE", "NONE"),
          Stage("setup")>>])
     \o <<Stage("setup"), Stage("getConnections")>>

\* communicator.cc:278 setupConnections: its calls.
connectionCalls(rank, plan, n) ==
  LET connectedPeers == getConnectedPeers(plan, rank)
  IN [i \in DOMAIN connectedPeers |->
        Call("connectOnSetup", connectedPeers[i],
             transportTo(rank, connectedPeers[i], n), "NONE", "NONE")]
     \o <<Stage("setup"), Stage("getConnections")>>

\* setupRegisteredMemories asking for the peers' descriptors before it hands
\* out its own.
memoryCallsRecvFirst(rank, plan, bufferType) ==
  LET sendTo == peersOf(getChannelInfosByDstRank(plan, rank, bufferType))
      recvFrom == peersOf(getChannelInfosOfBuffer(plan, rank, bufferType))
  IN <<Call("registerMemory", -1, "Unknown", bufferType, "NONE")>>
     \o [i \in DOMAIN recvFrom |->
           Call("recvMemoryOnSetup", recvFrom[i], "Unknown", bufferType, "NONE")]
     \o [i \in DOMAIN sendTo |->
           Call("sendMemoryOnSetup", sendTo[i], "Unknown", bufferType, "NONE")]
     \o <<Call("setup", -1, "Unknown", bufferType, "NONE"),
          Call("getMemories", -1, "Unknown", bufferType, "NONE")>>

\* communicator.cc:317 setupRegisteredMemories: the calls of one buffer role.
memoryCalls(rank, plan, bufferType) ==
  LET sendTo == peersOf(getChannelInfosByDstRank(plan, rank, bufferType))
      recvFrom == peersOf(getChannelInfosOfBuffer(plan, rank, bufferType))
  IN <<Call("registerMemory", -1, "Unknown", bufferType, "NONE")>>
     \o [i \in DOMAIN sendTo |->
           Call("sendMemoryOnSetup", sendTo[i], "Unknown", bufferType, "NONE")]
     \o [i \in DOMAIN recvFrom |->
           Call("recvMemoryOnSetup", recvFrom[i], "Unknown", bufferType, "NONE")]
     \o <<Call("setup", -1, "Unknown", bufferType, "NONE"),
          Call("getMemories", -1, "Unknown", bufferType, "NONE")>>

\* setupChannels building the semaphores of the rank's own channel infos
\* only.
semaphoreCallsOwnOnly(rank, plan, channelType) ==
  LET es == InfoPeers(getChannelInfosOfType(plan, rank, channelType))
  IN ConcatAll([i \in DOMAIN es |->
       <<Call("semaphoreSend", es[i].peer, "Unknown", "NONE", channelType),
         Call("semaphoreRecv", es[i].peer, "Unknown", "NONE", channelType)>>])

\* communicator.cc:357 setupChannels: the semaphores of one channel kind, for
\* the rank's channel infos and then the unpaired ones.  Building a semaphore
\* sends the peer a descriptor and asks for the peer's.
semaphoreCalls(rank, plan, channelType) ==
  LET callsOf(es) ==
        ConcatAll([i \in DOMAIN es |->
          <<Call("semaphoreSend", es[i].peer, "Unknown", "NONE", channelType),
            Call("semaphoreRecv", es[i].peer, "Unknown", "NONE", channelType)>>])
  IN callsOf(InfoPeers(getChannelInfosOfType(plan, rank, channelType))
             \o InfoPeers(getUnpairedChannelInfos(plan, rank, nranksOf(plan),
                                                  channelType)))

\* A cold path whose buffer roles come in the opposite order on the ranks
\* other than rank 0.
coldCallsOwnOrder(rank, plan, n) ==
  LET types == getConnectedBufferTypes(plan, rank)
      bufferTypes == IF rank = 0 THEN types
                     ELSE [i \in DOMAIN types |-> types[Len(types) + 1 - i]]
  IN connectionCalls(rank, plan, n)
     \o ConcatAll([i \in DOMAIN bufferTypes |->
                     memoryCalls(rank, plan, bufferTypes[i])])
     \o semaphoreCalls(rank, plan, "SM")
     \o semaphoreCalls(rank, plan, "PROXY")
     \o <<Stage("setup"), Stage("buildChannels"), Stage("serialize"),
          Stage("startProxy"), Stage("insert")>>

\* communicator.cc:248 the cold path from setupConnections to the insertion.
coldCalls(rank, plan, n) ==
  LET bufferTypes == getConnectedBufferTypes(plan, rank)
  IN connectionCalls(rank, plan, n)
     \o ConcatAll([i \in DOMAIN bufferTypes |->
                     memoryCalls(rank, plan, bufferTypes[i])])
     \o semaphoreCalls(rank, plan, "SM")
     \o semaphoreCalls(rank, plan, "PROXY")
     \o <<Stage("setup"), Stage("buildChannels"), Stage("serialize"),
          Stage("startProxy"), Stage("insert")>>

\* The buffers a rank calls its Executor with: every rank has its own.
KeyOfRank(rank, plan) ==
  ExecutionContextKey(4096 + 256 * rank, 8192 + 256 * rank, 64, 64, plan)

\* communicator.cc:241 the context before setupConnections
newContext(key, rank) ==
  [EmptyContext EXCEPT
     !.scratchBuffer = ScratchAddress(key),
     !.scratchBufferSize =
        getScratchBufferSize(key.plan, rank, key.sendBuffSize,
                             key.recvBuffSize),
     !.proxyService = "created",
     !.nthreadsPerBlock = getNThreadsPerBlock(key.plan)]

\* The region a semaphore registers for its peer to signal.
SemaphoreMemory(rank, peer, transport) ==
  registerMemory(rank, 1024 + peer, 8, {transport})

\* The call of a rank goes on to its next place in the cold path.
Advance(r, c, context, memory, pending) ==
  run' = [run EXCEPT ![r] = [@ EXCEPT !.pos = @ + 1,
                                      !.log = Append(@, c),
                                      !.context = context,
                                      !.memory = memory,
                                      !.pending = pending]]

\* communicator.cc:222 setupExecutionContext is entered by the Executor of
\* rank r, for the rank's buffers: the warm path as a whole, or the cold
\* path up to setupConnections.
CallExecutor(r, plan, inputMessageSize, outputMessageSize, contsSrcOffset, constDstOffset) ==
  LET key == KeyOfRank(r, plan) IN
  /\ CanCall(r)
  /\ run[r].pos = 0
  /\ IF find(caches[r], key) # {}
     THEN LET impl == lightLoadExecutionPlan(inputMessageSize, outputMessageSize,
                                             contsSrcOffset, constDstOffset)
              hit == CHOOSE e \in caches[r] : KeyEquals(e.key, key)
              context == rebuildContext(hit.context, r, plan, impl)
          IN /\ caches' = [caches EXCEPT ![r] =
                  { IF KeyEquals(e.key, key)
                    THEN [e EXCEPT !.context = context] ELSE e : e \in @ }]
             /\ run' = [run EXCEPT ![r] =
                  [NoRun EXCEPT !.path = "warm", !.outcome = "returned",
                                !.key = key, !.impl = impl,
                                !.context = context]]
     ELSE /\ run' = [run EXCEPT ![r] =
                  [NoRun EXCEPT !.pos = 1, !.path = "cold",
                                !.outcome = "running", !.key = key,
                                !.impl = loadExecutionPlan(
                                           inputMessageSize, outputMessageSize,
                                           contsSrcOffset, constDstOffset),
                                !.context = newContext(key, r)]]
          /\ UNCHANGED caches
  /\ UNCHANGED <<commVars, nranksPerNode, contexts, planImpl, lastCall,
                auxVars>>

\* The next call or stage of the cold path of rank r.
ColdStep(r) ==
  LET me == run[r]
      plan == me.key.plan
      step(c) ==
        /\ CanCall(r)
        /\ me.pos > 0
        /\ \/ /\ c.op = "connectOnSetup"
              /\ connectResult(r, c.peer, c.transport) = "ok"
              /\ ConnectOnSetup(r, c.peer, 0, c.transport)
              /\ Advance(r, c, me.context, me.memory,
                         Append(me.pending, Len(connections[r]) + 1))
              /\ UNCHANGED caches
           \/ /\ c.op = "setup"
              /\ SetupCall(r)
              /\ Advance(r, c, me.context, me.memory, me.pending)
              /\ UNCHANGED caches
           \/ /\ c.op = "getConnections"
              /\ LET connectedPeers == getConnectedPeers(plan, r)
                     made == [i \in DOMAIN connectedPeers |->
                                connections[r][me.pending[i]]]
                     got == [peer \in Range(connectedPeers) |->
                               LET i == CHOOSE j \in DOMAIN connectedPeers :
                                          connectedPeers[j] = peer
                               IN [remoteRank |-> made[i].remoteRank,
                                   transport |-> made[i].transport]]
                 IN Advance(r, c, [me.context EXCEPT !.connections = got],
                            me.memory, <<>>)
              /\ UNCHANGED <<commVars, caches>>
           \/ /\ c.op = "registerMemory"
              /\ Advance(r, c, me.context,
                         registeredFor(r, me.key, c.bufferType, nranksPerNode),
                         me.pending)
              /\ UNCHANGED <<commVars, caches>>
           \/ /\ c.op = "sendMemoryOnSetup"
              /\ SendMemoryOnSetup(r, me.memory, c.peer, 0)
              /\ Advance(r, c, me.context, me.memory, me.pending)
              /\ UNCHANGED caches
           \/ /\ c.op \in {"recvMemoryOnSetup", "semaphoreRecv"}
              /\ RecvMemoryOnSetup(r, c.peer, 0)
              /\ Advance(r, c, me.context, me.memory,
                         Append(me.pending, Len(futures[r]) + 1))
              /\ UNCHANGED caches
           \/ /\ c.op = "getMemories"
              /\ LET connectedPeers ==
                       peersOf(getChannelInfosOfBuffer(plan, r, c.bufferType))
                     got == {<<c.bufferType, connectedPeers[i]>> :
                               i \in DOMAIN connectedPeers}
                     valueOf(k) ==
                       LET i == CHOOSE j \in DOMAIN connectedPeers :
                                  connectedPeers[j] = k[2]
                       IN futures[r][me.pending[i]].value[1]
                     old == me.context.registeredMemories
                 IN Advance(r, c,
                            [me.context EXCEPT !.registeredMemories =
                               [k \in DOMAIN old \cup got |->
                                  IF k \in got THEN valueOf(k) ELSE old[k]]],
                            me.memory, <<>>)
              /\ UNCHANGED <<commVars, caches>>
           \/ /\ c.op = "semaphoreSend"
              /\ c.peer \in DOMAIN me.context.connections
              /\ SendMemoryOnSetup(r,
                   SemaphoreMemory(r, c.peer,
                                   me.context.connections[c.peer].transport),
                   c.peer, 0)
              /\ Advance(r, c, me.context, me.memory, me.pending)
              /\ UNCHANGED caches
           \/ /\ c.op = "buildChannels"
              /\ Advance(r, c,
                         setupChannels(me.context, me.key, r, nranksPerNode),
                         me.memory, <<>>)
              /\ UNCHANGED <<commVars, caches>>
           \/ /\ c.op = "serialize"
              /\ LET plans ==
                       setupDeviceExecutionPlan(me.context, r, plan, me.impl)
                 IN Advance(r, c,
                            [me.context EXCEPT
                               !.deviceExecutionPlans = plans,
                               !.deviceExecutionPlansBuffer = plans],
                            me.memory, me.pending)
              /\ UNCHANGED <<commVars, caches>>
           \/ /\ c.op = "startProxy"
              /\ Advance(r, c, [me.context EXCEPT !.proxyService = "started"],
                         me.memory, me.pending)
              /\ UNCHANGED <<commVars, caches>>
           \/ /\ c.op = "insert"
              /\ caches' = [caches EXCEPT ![r] =
                              @ \cup {[key |-> me.key, context |-> me.context]}]
              /\ run' = [run EXCEPT ![r] = [@ EXCEPT !.pos = 0,
                                                     !.outcome = "returned",
                                                     !.log = Append(@, c)]]
              /\ UNCHANGED commVars
        /\ UNCHANGED <<nranksPerNode, contexts, planImpl, lastCall, auxVars>>
  IN step(coldCalls(r, plan, nranksPerNode)[me.pos])

\* Every rank's Executor is called for the plan of the job, any number of
\* times, and the calls and the setup() loops of the ranks interleave.
NextCold ==
  \E r \in Ranks :
    \/ \E plan \in PlanNames, m \in MessageInputs :
         /\ \A p \in Peers(r) :
              IF run[p].path = "none" THEN TRUE ELSE run[p].key.plan = plan
         /\ CallExecutor(r, plan, m.inputSize, m.outputSize, m.srcOffset,
                         m.dstOffset)
    \/ ColdStep(r)
    \/ BeginLoop(r) /\ UNCHANGED <<execVars, auxVars>>
    \/ EndLoop(r) /\ UNCHANGED <<execVars, auxVars>>

SpecCold == Init /\ [][NextCold]_vars

\* Every rank has built its context and has made a warm call since.
ColdDone == \A r \in Ranks : caches[r] # {} /\ run[r].path = "warm"

(***************************************************************************)
(* The warm path.                                                          *)
(***************************************************************************)
\* The fields of a context the handshakes of the cold path produce.
KeptFields ==
  {"proxyService", "connections", "registeredMemories", "smSemaphores",
   "proxySemaphores", "smChannels", "proxyChannels", "scratchBuffer",
   "scratchBufferSize", "nthreadsPerBlock"}

\* The entry of a cache for a key.
EntryOf(cache, key) == CHOOSE e \in cache : e.key = key

\* Rank r makes a warm call in this step.
WarmCall(r) == run'[r].path = "warm" /\ run'[r] # run[r]

\* C11: a warm setupExecutionContext call leaves the Communicator as it was
\* (nothing is enqueued, no setup() runs, nothing is sent or received on the
\* bootstrap) and leaves the cached context's proxy service, connections,
\* registered memories, semaphores, channels and scratch buffer as they
\* were; the context's device execution plans are rebuilt from the plan
\* reloaded with the call's message sizes and offsets, and the device buffer
\* holds a copy of them.
C11_WarmPathKeepsHandshakes ==
  [][\A r \in Ranks :
       WarmCall(r) =>
         LET key == run'[r].key
             old == EntryOf(caches[r], key).context
             new == EntryOf(caches'[r], key).context
         IN /\ commVars' = commVars
            /\ run'[r].log = <<>>
            /\ \A f \in KeptFields : new[f] = old[f]
            /\ run'[r].impl.loaded = "light"
            /\ Len(new.deviceExecutionPlans) = getThreadblockCount(key.plan, r)
            /\ \A t \in DOMAIN new.deviceExecutionPlans :
                 new.deviceExecutionPlans[t].operations =
                   getOperations(run'[r].impl, key.plan, r, t - 1)
            /\ new.deviceExecutionPlansBuffer = new.deviceExecutionPlans
            /\ {e.key : e \in caches'[r]} = {e.key : e \in caches[r]}]_vars

\* C11 witness: a rank has made a warm call with a message other than the
\* one its context was built with, on a context that holds connections,
\* descriptors of its peers and channels.
C11_Witness ==
  \E r \in Ranks :
    /\ run[r].path = "warm"
    /\ run[r].impl.srcOffset # 0
    /\ \E e \in caches[r] :
         /\ e.key = run[r].key
         /\ DOMAIN e.context.registeredMemories # {}
         /\ e.context.proxyChannels # <<>>
         /\ e.context.deviceExecutionPlans[1].operations[1].srcOffset # 0

(***************************************************************************)
(* A cold path that fails.                                                 *)
(***************************************************************************)
\* A setupExecutionContext call is made in this step of SpecExec.
ExecutorCalled == lastCall' # lastCall \/ planImpl' # planImpl

\* C12: when a stage of the cold path raises an error (connection setup,
\* memory exchange, channel construction, serialization or proxy start), the
\* cache is left exactly as it was before the call and holds no entry for
\* the key; the next call with the same key takes the cold path again.
C12_FailedBuildLeavesCache ==
  [][ExecutorCalled =>
       /\ lastCall'.outcome = "raised" =>
            /\ lastCall'.path = "cold"
            /\ contexts' = contexts
            /\ ~HoldsEntryFor(contexts', lastCall'.key)
       /\ (lastCall.outcome = "raised" /\ lastCall'.key = lastCall.key) =>
            lastCall'.path = "cold"]_vars

\* C12 witness: a cold build has failed at its last stage for a key while the
\* cache holds the context of another key, and the cache holds none for the
\* key of the failed call.
C12_Witness ==
  /\ lastCall.outcome = "raised"
  /\ lastCall.stage = "proxy"
  /\ contexts # {}
  /\ \A e \in contexts : e.key # lastCall.key

(***************************************************************************)
(* The transport of a connection, over a world of more than two ranks.     *)
(***************************************************************************)
InitWorld ==
  /\ CommunicatorInit({t \in [World -> Hosts] : t[0] = "hostA"})
  /\ LaunchInit({FlagZero})
  /\ NoTest

\* communicator.cc:281 one turn of the loop of setupConnections: the
\* transport is selected for the peer and connectOnSetup is called with it.
SelectTransport(rank, peer) ==
  /\ LET transport == transportTo(rank, peer, nranksPerNode) IN
       selected' = [rank |-> rank, peer |-> peer, transport |-> transport,
                    result |-> connectResult(rank, peer, transport)]
  /\ UNCHANGED <<commVars, execVars, pureVars, launchVars, testVars>>

NextWorld ==
  \E rank \in World, peer \in World :
    /\ peer # rank
    /\ SelectTransport(rank, peer)

SpecWorld == InitWorld /\ [][NextWorld]_vars

\* C13: for a connected peer the Executor requests the intra-node transport
\* exactly when the peer has the host identity of this rank, the one
\* connectOnSetup compares, and otherwise the RDMA transport of this rank
\* modulo the ranks per node.
C13_TransportByHost ==
  selected # NoSelection =>
    /\ selected.transport = "CudaIpc" <=>
         rankToHash[selected.peer] = rankToHash[selected.rank]
    /\ selected.transport # "CudaIpc" =>
         selected.transport = IBs[(selected.rank % nranksPerNode) + 1]

(***************************************************************************)
(* Executor::execute and Executor::Impl::launchKernel.                     *)
(***************************************************************************)
MaxLaunches == 3

FlagMax == [hi |-> HalfWord - 1, lo |-> HalfWord - 1]

\* communicator.cc:466 ++flag on a uint32_t
increment(f) ==
  IF f.lo + 1 < HalfWord THEN [hi |-> f.hi, lo |-> f.lo + 1]
  ELSE [hi |-> (f.hi + 1) % HalfWord, lo |-> 0]

PacketTypes == {"LL16", "LL8", "Other"}

\* launchKernel passing flag++ : the kernel gets the value before the
\* increment.
launchKernelPostIncrement(f, packetType) ==
  IF packetType \in {"LL16", "LL8"}
  THEN [flag |-> increment(f), passed |-> f, result |-> "launched"]
  ELSE [flag |-> f, passed |-> f, result |-> "ExecutorError"]

\* launchKernel counting the call before it looks at the packet type.
launchKernelCountsFirst(f, packetType) ==
  IF packetType \in {"LL16", "LL8"}
  THEN [flag |-> increment(f), passed |-> increment(f), result |-> "launched"]
  ELSE [flag |-> increment(f), passed |-> f, result |-> "ExecutorError"]

\* communicator.cc:444 launchKernel: the counter after the call, the flag the
\* kernel is launched with, and how the call ends.
launchKernel(f, packetType) ==
  IF packetType \in {"LL16", "LL8"}
  THEN [flag |-> increment(f), passed |-> increment(f), result |-> "launched"]
  ELSE [flag |-> f, passed |-> f, result |-> "ExecutorError"]

\* The device allocations of the caller.
Allocations ==
  {[base |-> 4096, size |-> 64], [base |-> 8192, size |-> 64],
   [base |-> 12288, size |-> 64]}

\* cuMemGetAddressRange: the allocation a device pointer lies in.
cuMemGetAddressRange(ptr) ==
  CHOOSE a \in Allocations : a.base <= ptr /\ ptr < a.base + a.size

\* execute handing the caller's pointers to setupExecutionContext as bases.
executeArgsOfPointers(sendbuff, recvbuff, sendBuffSize, recvBuffSize) ==
  [sendBasePtr |-> sendbuff, recvBasePtr |-> recvbuff,
   inputMessageSize |-> sendBuffSize, outputMessageSize |-> recvBuffSize,
   offsetIn |-> sendbuff - cuMemGetAddressRange(sendbuff).base,
   offsetOut |-> recvbuff - cuMemGetAddressRange(recvbuff).base,
   sendBytes |-> cuMemGetAddressRange(sendbuff).size,
   recvBytes |-> cuMemGetAddressRange(recvbuff).size]

\* communicator.cc:485 the arguments execute computes for
\* setupExecutionContext
executeArgs(sendbuff, recvbuff, sendBuffSize, recvBuffSize) ==
  [sendBasePtr |-> cuMemGetAddressRange(sendbuff).base,
   recvBasePtr |-> cuMemGetAddressRange(recvbuff).base,
   inputMessageSize |-> sendBuffSize, outputMessageSize |-> recvBuffSize,
   offsetIn |-> sendbuff - cuMemGetAddressRange(sendbuff).base,
   offsetOut |-> recvbuff - cuMemGetAddressRange(recvbuff).base,
   sendBytes |-> cuMemGetAddressRange(sendbuff).size,
   recvBytes |-> cuMemGetAddressRange(recvbuff).size]

\* communicator.cc:482 execute.  An error of setupExecutionContext leaves
\* execute before the launch.
Execute(rank, sendbuff, recvbuff, sendBuffSize, recvBuffSize, plan, packetType, failAt) ==
  LET a == executeArgs(sendbuff, recvbuff, sendBuffSize, recvBuffSize)
      l == launchKernel(flag, packetType)
      ended(result) ==
        [sendbuff |-> sendbuff, recvbuff |-> recvbuff,
         sendBuffSize |-> sendBuffSize, recvBuffSize |-> recvBuffSize,
         plan |-> plan, packetType |-> packetType, result |-> result]
  IN
  /\ SetupExecutionContext(rank, a.sendBasePtr, a.recvBasePtr,
                           a.inputMessageSize, a.outputMessageSize,
                           a.offsetIn, a.offsetOut, a.sendBytes, a.recvBytes,
                           plan, failAt)
  /\ IF lastCall'.outcome = "raised"
     THEN /\ lastExecute' = ended("raised")
          /\ UNCHANGED <<flag, kernel, launches>>
     ELSE /\ lastExecute' = ended(l.result)
          /\ flag' = l.flag
          /\ IF l.result = "launched"
             THEN /\ kernel' = [flag |-> l.passed, sendbuff |-> sendbuff,
                                recvbuff |-> recvbuff]
                  /\ launches' = launches + 1
             ELSE UNCHANGED <<kernel, launches>>
  /\ UNCHANGED <<selected, pureVars, testVars>>

\* The calls: two with pointers into the same two allocations at different
\* offsets and with different sizes, one with the send buffer in another
\* allocation, one with another plan.
ExecuteInputs ==
  {[sendbuff |-> 4096, recvbuff |-> 8192, size |-> 16, plan |-> "allgather"],
   [sendbuff |-> 4112, recvbuff |-> 8200, size |-> 8, plan |-> "allgather"],
   [sendbuff |-> 12288, recvbuff |-> 8192, size |-> 16, plan |-> "allgather"],
   [sendbuff |-> 4096, recvbuff |-> 8192, size |-> 16, plan |-> "allreduce"]}

\* The counter of a new process, and the counter two launches before it
\* wraps around.
FlagStarts == {FlagZero, [hi |-> HalfWord - 1, lo |-> HalfWord - 2]}

InitLaunch ==
  /\ CommunicatorInit({[r \in Ranks |-> "hostA"]})
  /\ LaunchInit(FlagStarts)
  /\ NoTest

NextLaunch ==
  \E x \in ExecuteInputs, packetType \in PacketTypes,
     failAt \in {"none", "proxy"} :
    LET a == executeArgs(x.sendbuff, x.recvbuff, x.size, x.size)
        key == ExecutionContextKey(a.sendBasePtr, a.recvBasePtr, a.sendBytes,
                                   a.recvBytes, x.plan)
    IN /\ launches < MaxLaunches
       /\ find(contexts, key) # {} \/ Cardinality(contexts) < MaxContexts
       /\ failAt = "none" \/ find(contexts, key) = {}
       /\ Execute(0, x.sendbuff, x.recvbuff, x.size, x.size, x.plan,
                  packetType, failAt)

SpecLaunch == InitLaunch /\ [][NextLaunch]_vars

(***************************************************************************)
(* The launch flag.                                                        *)
(***************************************************************************)
\* A kernel is launched in this step.
Launched == launches' # launches

\* Flag b is the integer after flag a.
OneGreater(a, b) ==
  \/ a.lo < HalfWord - 1 /\ b.hi = a.hi /\ b.lo = a.lo + 1
  \/ a.lo = HalfWord - 1 /\ a.hi < HalfWord - 1 /\ b.hi = a.hi + 1 /\ b.lo = 0

\* C14 as stated: every launch passes a flag exactly one greater than the
\* flag of the launch before it, so that no two launches get the same flag.
C14_FlagOneGreater ==
  [][Launched => OneGreater(kernel.flag, kernel'.flag)]_vars

\* C14: every launch passes the flag that follows the flag of the launch
\* before it in the 32-bit counter, the first launch of a process passes 1,
\* and the flag after 2^32 - 1 is 0; a launch never gets the flag of the
\* launch before it.
C14_FlagNextModulo ==
  [][Launched =>
       /\ launches' = launches + 1
       /\ \/ OneGreater(kernel.flag, kernel'.flag)
          \/ kernel.flag = FlagMax /\ kernel'.flag = FlagZero
       /\ kernel'.flag # kernel.flag
       /\ flag' = kernel'.flag
       /\ (launches = 0 /\ flag = FlagZero) =>
            kernel'.flag = [hi |-> 0, lo |-> 1]]_vars

\* C14 witness: the counter has wrapped around: a kernel was launched with
\* flag 0 after the kernel with flag 2^32 - 1, for another context than the
\* first one.
C14_Witness ==
  /\ launches >= 2
  /\ kernel.flag = FlagZero
  /\ Cardinality(contexts) >= 2

\* C15: launchKernel with a packet type other than LL16 and LL8 ends with an
\* ExecutorError, launches no kernel and leaves the counter as it was; the
\* launch that follows gets the flag after the one of the last kernel
\* launched.
C15_InvalidPacketTypeKeepsFlag ==
  [][/\ (lastExecute'.packetType \notin {"LL16", "LL8"}
           /\ lastExecute'.result # "raised") =>
          /\ lastExecute'.result = "ExecutorError"
          /\ flag' = flag
          /\ kernel' = kernel
          /\ launches' = launches
     /\ (lastExecute.result = "ExecutorError" /\ Launched) =>
          kernel'.flag = increment(kernel.flag)]_vars

\* C15 witness: after a kernel was launched, launchKernel has been called
\* with another packet type.
C15_Witness ==
  /\ lastExecute.result = "ExecutorError"
  /\ lastExecute.packetType = "Other"
  /\ launches >= 1

(***************************************************************************)
(* The key of execute.                                                     *)
(***************************************************************************)
\* The key of the allocations the pointers of a call lie in.
AllocationKey(x) ==
  ExecutionContextKey(cuMemGetAddressRange(x.sendbuff).base,
                      cuMemGetAddressRange(x.recvbuff).base,
                      cuMemGetAddressRange(x.sendbuff).size,
                      cuMemGetAddressRange(x.recvbuff).size, x.plan)

\* C16: execute keys the context on the base address and the capacity of the
\* allocations its pointers lie in: a call whose allocations and plan have a
\* cached context uses that context, whatever the offsets of the pointers
\* and the message sizes; the plan is loaded with the offsets pointer minus
\* base, and the kernel is launched with the pointers of the caller.
C16_KeyOfAllocations ==
  [][LET x == lastExecute' IN
       /\ lastCall'.key = AllocationKey(x)
       /\ HoldsEntryFor(contexts, AllocationKey(x)) =>
            /\ lastCall'.path = "warm"
            /\ {e.key : e \in contexts'} = {e.key : e \in contexts}
       /\ planImpl'[x.plan].srcOffset =
            x.sendbuff - cuMemGetAddressRange(x.sendbuff).base
       /\ planImpl'[x.plan].dstOffset =
            x.recvbuff - cuMemGetAddressRange(x.recvbuff).base
       /\ planImpl'[x.plan].inputSize = x.sendBuffSize
       /\ x.result = "launched" =>
            /\ kernel'.sendbuff = x.sendbuff
            /\ kernel'.recvbuff = x.recvbuff]_vars

\* C16 witness: a call with pointers inside their allocations, at offsets
\* 16 and 8, has used the cached context and launched the kernel with these
\* pointers.
C16_Witness ==
  /\ lastCall.path = "warm"
  /\ lastExecute.result = "launched"
  /\ kernel.sendbuff = 4112 /\ kernel.recvbuff = 8200
  /\ lastCall.key.sendBuff = 4096 /\ lastCall.key.recvBuff = 8192
  /\ planImpl["allgather"].srcOffset = 16

(***************************************************************************)
(* tests/allgather_test.cu: the all-gather kernels.                        *)
(***************************************************************************)
\* allgather_test.cu:197 the world sizes of the runs
WorldSizes == {2, 3}

\* allgather_test.cu:211 data_size / sizeof(int), bounded
MaxElems == 4

sizeofInt == 4

TestRanks == 0..(world_size - 1)

\* allgather_test.cu:224 one warp for every other rank
Warps == 0..(world_size - 2)

\* allgather_test.cu:212
nelemsPerGPU(ws) == MaxElems \div ws

\* allgather_test.cu:117 the buffer of a rank before the kernel.  The copy
\* to the device has the length of data_size: beyond the host array it
\* copies what lies behind that array.
initializeAndAllocateAllGatherData(rank, ws, behind) ==
  [i \in 0..(MaxElems - 1) |->
     IF i < nelemsPerGPU(ws) * ws
     THEN IF i \div nelemsPerGPU(ws) = rank THEN i + 1 ELSE 0
     ELSE behind]

\* allgather_test.cu:88 the remote rank of a warp's connection
remoteRankOf(warpId, rank) == IF warpId < rank THEN warpId ELSE warpId + 1

\* A put of the chunk of the remote rank.
chunkOffsetOfRemote(rank, remoteRank, n) == remoteRank * n * sizeofInt

\* allgather_test.cu:56 the offset of the put: the chunk of this rank
chunkOffset(rank, remoteRank, n) == rank * n * sizeofInt

\* mscclppDevConn_t::put and ::signal: requests to the connection, served in
\* their order.
PutRequest(offset, size) == [op |-> "put", offset |-> offset, size |-> size]

SignalRequest == [op |-> "signal", offset |-> 0, size |-> 0]

InitTest ==
  /\ CommunicatorInit({[r \in Ranks |-> "hostA"]})
  /\ LaunchInit({FlagZero})
  /\ world_size \in WorldSizes
  /\ kernelNum \in {0, 1}
  /\ \E behind \in {0, -1} :
       data_d = [r \in 0..(world_size - 1) |->
                   initializeAndAllocateAllGatherData(r, world_size, behind)]
  /\ warp = [r \in 0..(world_size - 1) |->
               [w \in 0..(world_size - 2) |->
                  [pc |-> IF kernelNum = 0 THEN "put" ELSE "loop", i |-> 1]]]
  /\ fifo = [c \in {c \in (0..(world_size - 1)) \X (0..(world_size - 1)) :
                      c[1] # c[2]} |-> <<>>]
  /\ semaphore = [r \in 0..(world_size - 1) |->
                    [p \in (0..(world_size - 1)) \ {r} |-> 0]]

\* allgather_test.cu:56 allgather0: the put
Allgather0Put(r, w) ==
  LET remote == remoteRankOf(w, r)
      n == nelemsPerGPU(world_size)
  IN /\ warp[r][w].pc = "put"
     /\ fifo' = [fifo EXCEPT ![<<r, remote>>] =
                   Append(@, PutRequest(chunkOffset(r, remote, n),
                                        n * sizeofInt))]
     /\ warp' = [warp EXCEPT ![r][w].pc = "signal"]
     /\ UNCHANGED <<data_d, semaphore>>

\* allgather_test.cu:58 allgather0: the signal
Allgather0Signal(r, w) ==
  /\ warp[r][w].pc = "signal"
  /\ fifo' = [fifo EXCEPT ![<<r, remoteRankOf(w, r)>>] =
                Append(@, SignalRequest)]
  /\ warp' = [warp EXCEPT ![r][w].pc = "wait"]
  /\ UNCHANGED <<data_d, semaphore>>

\* allgather_test.cu:71 allgather1: one turn of the loop.  __syncthreads
\* lets a warp go on when every warp of the block has come to this turn.
Allgather1Loop(r, w) ==
  LET remote == remoteRankOf(w, r)
      n == nelemsPerGPU(world_size)
      i == warp[r][w].i
  IN /\ warp[r][w].pc = "loop"
     /\ \A v \in Warps : warp[r][v].i >= i
     /\ fifo' = IF remote # (r + i) % world_size THEN fifo
                ELSE [fifo EXCEPT ![<<r, remote>>] =
                        @ \o <<PutRequest(chunkOffset(r, remote, n),
                                          n * sizeofInt),
                               SignalRequest>>]
     /\ warp' = [warp EXCEPT ![r][w] =
                   [pc |-> IF i + 1 < world_size THEN "loop" ELSE "wait",
                    i |-> i + 1]]
     /\ UNCHANGED <<data_d, semaphore>>

\* allgather_test.cu:61, 78 mscclppDevConn_t::wait: the warp goes on when a
\* signal of the remote rank has arrived.
Wait(r, w) ==
  /\ warp[r][w].pc = "wait"
  /\ semaphore[r][remoteRankOf(w, r)] >= 1
  /\ warp' = [warp EXCEPT ![r][w].pc = "done"]
  /\ UNCHANGED <<data_d, fifo, semaphore>>

\* The connection serves its first request: a put copies the bytes at the
\* offset of the local buffer to the same offset of the remote buffer, a
\* signal arrives at the semaphore of the remote rank.
Serve(src, dst) ==
  /\ fifo[<<src, dst>>] # <<>>
  /\ LET q == Head(fifo[<<src, dst>>])
         first == q.offset \div sizeofInt
         last == ((q.offset + q.size) \div sizeofInt) - 1
     IN /\ fifo' = [fifo EXCEPT ![<<src, dst>>] = Tail(@)]
        /\ IF q.op = "put"
           THEN /\ data_d' = [data_d EXCEPT ![dst] =
                     [i \in DOMAIN @ |->
                        IF first <= i /\ i <= last
                        THEN data_d[src][i] ELSE @[i]]]
                /\ UNCHANGED semaphore
           ELSE /\ semaphore' = [semaphore EXCEPT ![dst][src] = @ + 1]
                /\ UNCHANGED data_d
  /\ UNCHANGED warp

NextTest ==
  /\ UNCHANGED <<commVars, execVars, selected, pureVars, launchVars,
                 world_size, kernelNum>>
  /\ \E r \in TestRanks :
       \/ \E w \in Warps :
            \/ Allgather0Put(r, w)
            \/ Allgather0Signal(r, w)
            \/ Allgather1Loop(r, w)
            \/ Wait(r, w)
       \/ \E dst \in TestRanks \ {r} : Serve(r, dst)

SpecTest == InitTest /\ [][NextTest]_vars

\* The kernel of a rank has completed.
KernelDone(r) == \A w \in Warps : warp[r][w].pc = "done"

\* The chunk of a rank lies in the buffer of rank r.
HoldsChunk(r, of) ==
  \A i \in 0..(MaxElems - 1) :
    i \div nelemsPerGPU(world_size) = of => data_d[r][i] = i + 1

PlacesOf(log, op) == {i \in DOMAIN log : log[i].op = op}

RoleCalls(log, bufferType, op) ==
  {i \in DOMAIN log : log[i].op = op /\ log[i].bufferType = bufferType}

\* The futures of the receivers in the queue of rank r that are resolved.
ResolvedInQueue(r) ==
  {i \in DOMAIN toSetup[r] :
     /\ toSetup[r][i].kind = "receiver"
     /\ futures[r][toSetup[r][i].fut].value # <<>>}

\* C19: for every buffer role of a rank's cold path the buffer is registered
\* once, before the role's sends; every send of the role is enqueued before
\* every receive of the role; one setup() is called for the role, after
\* them; and when a receive future of the role is resolved, every send of
\* the role has been issued on the bootstrap.
C19_MemoryExchangePerRole ==
  \A r \in Ranks :
    run[r].path = "cold" =>
      \A bufferType \in {"INPUT", "OUTPUT", "SCRATCH"} :
        LET log == run[r].log
            plan == run[r].key.plan
            regs == RoleCalls(log, bufferType, "registerMemory")
            sends == RoleCalls(log, bufferType, "sendMemoryOnSetup")
            recvs == RoleCalls(log, bufferType, "recvMemoryOnSetup")
            setups == RoleCalls(log, bufferType, "setup")
            gets == RoleCalls(log, bufferType, "getMemories")
        IN /\ Cardinality(regs) <= 1
           /\ Cardinality(setups) <= 1
           /\ \A i \in sends \cup recvs \cup setups \cup gets :
                \E j \in regs : j < i
           /\ \A i \in sends : \A j \in recvs : i < j
           /\ \A i \in setups :
                /\ \A j \in sends \cup recvs : j < i
                /\ {log[j].peer : j \in sends} =
                     Range(peersOf(getChannelInfosByDstRank(plan, r,
                                                            bufferType)))
                /\ {log[j].peer : j \in recvs} =
                     Range(peersOf(getChannelInfosOfBuffer(plan, r,
                                                           bufferType)))
           /\ \A i \in gets : \E j \in setups : j < i
           /\ (setups # {} /\ gets = {} /\ ResolvedInQueue(r) # {}) =>
                \A i \in DOMAIN toSetup[r] :
                  toSetup[r][i].kind = "sender" =>
                    /\ nBegin[r][toSetup[r][i].id] = 1
                    /\ toSetup[r][i].memory \in
                         Range(sentLog[<<r, toSetup[r][i].remoteRank, 0>>])

\* C19 witness: a rank has exchanged the descriptors of two buffer roles, and
\* the other rank has a resolved receive future in the round of a role.
C19_Witness ==
  \E r \in Ranks :
    /\ run[r].path = "cold"
    /\ Cardinality(PlacesOf(run[r].log, "getMemories")) = 2
    /\ \E p \in Peers(r) :
         /\ run[p].path = "cold"
         /\ run[p].log # <<>>
         /\ run[p].log[Len(run[p].log)].op = "setup"
         /\ run[p].log[Len(run[p].log)].bufferType # "NONE"
         /\ ResolvedInQueue(p) # {}

\* The descriptors held under (buffer role, peer) are the ones the peers
\* registered for their own buffers of the role.
HoldsPeersDescriptors(held, plan) ==
  \A k \in DOMAIN held :
    /\ held[k] = registeredFor(k[2], KeyOfRank(k[2], plan), k[1], nranksPerNode)
    /\ held[k].rank = k[2]

ChannelPlans == {"allreduce", "sendrecv"}

NextChan ==
  \E r \in Ranks :
    \/ \E plan \in ChannelPlans, m \in MessageInputs :
         /\ \A p \in Peers(r) :
              IF run[p].path = "none" THEN TRUE ELSE run[p].key.plan = plan
         /\ CallExecutor(r, plan, m.inputSize, m.outputSize, m.srcOffset,
                         m.dstOffset)
    \/ ColdStep(r)
    \/ BeginLoop(r) /\ UNCHANGED <<execVars, auxVars>>
    \/ EndLoop(r) /\ UNCHANGED <<execVars, auxVars>>

SpecChan == Init /\ [][NextChan]_vars

\* The places of the semaphore-build requests in a log.
SemaphorePlaces(log) ==
  PlacesOf(log, "semaphoreSend") \cup PlacesOf(log, "semaphoreRecv")

\* The places of the setup() call of channel construction in a log: the
\* setup() calls after the first semaphore-build request.
ChannelSetups(log) ==
  {i \in PlacesOf(log, "setup") : \E j \in SemaphorePlaces(log) : j < i}

\* The semaphores of a kind a log has requested toward a peer.
SemaphoresToward(log, channelType, peer) ==
  {i \in PlacesOf(log, "semaphoreSend") :
     log[i].channelType = channelType /\ log[i].peer = peer}

\* The (channel info, peer) entries of a kind toward a peer, among the
\* rank's own channel infos and among the unpaired ones.
OwnToward(plan, rank, channelType, peer) ==
  LET es == InfoPeers(getChannelInfosOfType(plan, rank, channelType))
  IN {i \in DOMAIN es : es[i].peer = peer}

UnpairedToward(plan, rank, channelType, peer) ==
  LET es == InfoPeers(getUnpairedChannelInfos(plan, rank, nranksOf(plan),
                                              channelType))
  IN {i \in DOMAIN es : es[i].peer = peer}

\* C21: in channel construction every semaphore-build request of both
\* channel kinds, for the rank's own channel infos and for the unpaired
\* ones, is enqueued before the one setup() call of the stage; when a rank
\* B has called that setup(), it has enqueued, for every semaphore a rank A
\* builds toward B, a semaphore of the kind toward A; and no channel is
\* constructed before that setup() call has returned, every Setuppable of
\* the rank having had its two hooks.
C21_SemaphoresBeforeOneSetup ==
  \A b \in Ranks :
    run[b].path = "cold" =>
      LET log == run[b].log
          plan == run[b].key.plan
          sems == SemaphorePlaces(log)
          setups == ChannelSetups(log)
          builds == PlacesOf(log, "buildChannels")
      IN /\ Cardinality(setups) <= 1
         /\ \A i \in setups :
              /\ \A j \in sems : j < i
              /\ \A channelType \in {"SM", "PROXY"}, a \in Peers(b) :
                   /\ Cardinality(SemaphoresToward(log, channelType, a)) =
                        Cardinality(OwnToward(plan, b, channelType, a))
                        + Cardinality(UnpairedToward(plan, b, channelType, a))
                   /\ run[a].path = "cold" =>
                        Cardinality(SemaphoresToward(run[a].log, channelType, b))
                          <= Cardinality(SemaphoresToward(log, channelType, a))
         /\ \A i \in builds : \E j \in setups : j < i
         /\ (run[b].context.smChannels # <<>>
             \/ run[b].context.proxyChannels # <<>>) => builds # {}
         /\ builds # {} =>
              /\ toSetup[b] = <<>>
              /\ \A id \in 1..(nextId[b] - 1) :
                   nBegin[b][id] = 1 /\ nEnd[b][id] = 1

\* C21 witness: both ranks have built the channels of the plan with one-way
\* channels, rank 0 after it requested a semaphore for an unpaired channel
\* info of the proxy kind and rank 1 one of the other kind.
C21_Witness ==
  /\ \A r \in Ranks :
       /\ run[r].path = "cold"
       /\ run[r].key.plan = "sendrecv"
       /\ PlacesOf(run[r].log, "buildChannels") # {}
  /\ SemaphoresToward(run[0].log, "PROXY", 1) # {}
  /\ SemaphoresToward(run[1].log, "SM", 0) # {}
  /\ OwnToward("sendrecv", 0, "PROXY", 1) = {}
  /\ OwnToward("sendrecv", 1, "SM", 0) = {}

(***************************************************************************)
(* The functions that build a context, each applied to the result of the   *)
(* one before it, for every plan, every rank the plan is written for and   *)
(* the ranks per node a job of that many ranks can have.                   *)
(***************************************************************************)
BuildPlans == PlanNames \cup ChannelPlans \cup WorldPlans

\* The buffers of the calls.
BuildKeys(plan) ==
  {[BaseKey EXCEPT !.plan = plan],
   [BaseKey EXCEPT !.plan = plan, !.sendBuff = 12288, !.recvBuffSize = 128]}

\* communicator.cc:248 setupConnections, setupRegisteredMemories and
\* setupChannels of the cold path of a rank.
BuildChannels(rank, plan, n, key) ==
  LET c1 == newContext(key, rank)
      c2 == [c1 EXCEPT !.connections = setupConnections(rank, plan, n)]
      c3 == [c2 EXCEPT !.registeredMemories =
                          setupRegisteredMemories(key, rank, n)]
  IN /\ built' = [rank |-> rank, plan |-> plan, n |-> n, key |-> key,
                  impl |-> NotLoaded, stage |-> "channels",
                  before |-> c3,
                  context |-> setupChannels(c3, key, rank, n)]
     /\ UNCHANGED <<commVars, execVars, selected, launchVars, testVars>>

\* communicator.cc:254 setupDeviceExecutionPlan of the cold path, and of the
\* warm path at line 229, for the plan as loaded with the sizes of a call.
BuildDeviceExecutionPlan(inputSize, outputSize, srcOffset, dstOffset) ==
  /\ built.stage # "none"
  /\ LET impl == IF built.stage = "channels"
                 THEN loadExecutionPlan(inputSize, outputSize, srcOffset,
                                        dstOffset)
                 ELSE lightLoadExecutionPlan(inputSize, outputSize, srcOffset,
                                             dstOffset)
     IN built' = [built EXCEPT
                    !.impl = impl,
                    !.stage = "plans",
                    !.context = [@ EXCEPT !.deviceExecutionPlans =
                                   setupDeviceExecutionPlan(
                                     built.context, built.rank, built.plan,
                                     impl)]]
  /\ UNCHANGED <<commVars, execVars, selected, launchVars, testVars>>

NextBuild ==
  \/ \E plan \in BuildPlans :
       \E rank \in PlanRanks(plan), n \in 1..nranksOf(plan) :
         \E key \in BuildKeys(plan) : BuildChannels(rank, plan, n, key)
  \/ \E m \in MessageInputs :
       BuildDeviceExecutionPlan(m.inputSize, m.outputSize, m.srcOffset,
                                m.dstOffset)

SpecBuild == Init /\ [][NextBuild]_vars

\* The (channel info, peer) entries of the channels of a kind of the context
\* last built, and those of the unpaired channel infos.
BuiltEntries(channelType) ==
  InfoPeers(getChannelInfosOfType(built.plan, built.rank, channelType))

BuiltUnpaired(channelType) ==
  InfoPeers(getUnpairedChannelInfos(built.plan, built.rank,
                                    nranksOf(built.plan), channelType))

BuiltChannels(channelType) ==
  IF channelType = "SM" THEN built.context.smChannels
  ELSE built.context.proxyChannels

BuiltSemaphores(channelType) ==
  IF channelType = "SM" THEN built.context.smSemaphores
  ELSE built.context.proxySemaphores

\* C22: after setupChannels, for each channel kind there is one channel per
\* (channel info, connected peer) of the rank in plan order; the k-th
\* channel is bound to the k-th semaphore built for the kind, that semaphore
\* was built over the connection to the peer the channel targets, and the
\* channel's remote memory is the descriptor stored for (the destination
\* role of the channel info, that peer); the semaphores after them are those
\* of the unpaired channel infos and no channel is bound to one of them.
C22_ChannelBoundByIndex ==
  built.stage # "none" =>
    \A channelType \in {"SM", "PROXY"} :
      LET es == BuiltEntries(channelType)
          us == BuiltUnpaired(channelType)
          chans == BuiltChannels(channelType)
          sems == BuiltSemaphores(channelType)
      IN /\ Len(chans) = Len(es)
         /\ Len(sems) = Len(es) + Len(us)
         /\ \A k \in DOMAIN sems :
              /\ sems[k].id = k - 1
              /\ sems[k].channelType = channelType
         /\ \A k \in DOMAIN chans :
              /\ chans[k].semaphore = sems[k]
              /\ sems[k].connection.remoteRank = es[k].peer
              /\ sems[k].connection = built.context.connections[es[k].peer]
              /\ <<es[k].info.dstBufferType, es[k].peer>> \in
                   DOMAIN built.before.registeredMemories
              /\ chans[k].dst =
                   built.before.registeredMemories[
                     <<es[k].info.dstBufferType, es[k].peer>>]
              /\ chans[k].dst.rank = es[k].peer
         /\ \A j \in (Len(es) + 1)..Len(sems) :
              /\ sems[j].connection.remoteRank = us[j - Len(es)].peer
              /\ \A other \in {"SM", "PROXY"} :
                   \A k \in DOMAIN BuiltChannels(other) :
                     BuiltChannels(other)[k].semaphore # sems[j]

\* C22 witness: the channels of rank 0 for the plan "scatter": three channels
\* of one kind from two channel infos, to three peers, and of the other
\* kind one channel and one semaphore more, for an unpaired channel info.
C22_Witness ==
  /\ built.stage = "channels"
  /\ built.plan = "scatter"
  /\ built.rank = 0
  /\ Len(built.context.smChannels) = 3
  /\ Cardinality({BuiltEntries("SM")[k].peer : k \in 1..3}) = 3
  /\ Cardinality({BuiltEntries("SM")[k].info : k \in 1..3}) = 2
  /\ Len(built.context.proxyChannels) = 1
  /\ Len(built.context.proxySemaphores) = 2

\* C23: setupDeviceExecutionPlan yields one record per threadblock index
\* 0..getThreadblockCount(rank)-1, in index order; the record of threadblock
\* t has the operations of the plan for (rank, t) in their order and their
\* number as its operation count, the sizes of the threadblock's two
\* channel-index maps as its channel counts, and as its i-th handle of a
\* kind the context's channel of the kind at the i-th mapped index.
C23_RecordPerThreadblock ==
  built.stage = "plans" =>
    LET plans == built.context.deviceExecutionPlans
    IN /\ DOMAIN plans = 1..getThreadblockCount(built.plan, built.rank)
       /\ \A t \in DOMAIN plans :
            LET ops == getOperations(built.impl, built.plan, built.rank, t - 1)
                smMap == threadblockChannelMap(built.plan, built.rank, t - 1,
                                               "SM")
                proxyMap == threadblockChannelMap(built.plan, built.rank,
                                                  t - 1, "PROXY")
            IN /\ plans[t].nOperations = Len(ops)
               /\ plans[t].operations = ops
               /\ plans[t].nSmChannels = Len(smMap)
               /\ plans[t].nProxyChannels = Len(proxyMap)
               /\ DOMAIN plans[t].smChannels = DOMAIN smMap
               /\ DOMAIN plans[t].proxyChannels = DOMAIN proxyMap
               /\ \A i \in DOMAIN smMap :
                    plans[t].smChannels[i] =
                      built.context.smChannels[smMap[i] + 1]
               /\ \A i \in DOMAIN proxyMap :
                    plans[t].proxyChannels[i] =
                      built.context.proxyChannels[proxyMap[i] + 1]

\* C23 witness: the records of rank 0 for the plan "scatter": two
\* threadblocks with operation lists of different lengths, the first with
\* the three channels of one kind from the last to the first, the second
\* with the first and the third.
C23_Witness ==
  /\ built.stage = "plans"
  /\ built.plan = "scatter"
  /\ built.rank = 0
  /\ Len(built.context.deviceExecutionPlans) = 2
  /\ built.context.deviceExecutionPlans[1].nOperations = 2
  /\ built.context.deviceExecutionPlans[2].nOperations = 3
  /\ built.context.deviceExecutionPlans[1].nSmChannels = 3
  /\ built.context.deviceExecutionPlans[1].smChannels[1] =
       built.context.smChannels[3]
  /\ built.context.smChannels[3] # built.context.smChannels[1]
  /\ built.context.deviceExecutionPlans[2].nSmChannels = 2
  /\ built.context.deviceExecutionPlans[2].smChannels[2] =
       built.context.smChannels[3]

\* The keys (buffer role, peer) a log has stored a received descriptor
\* under: those of the receives of the roles whose descriptors were taken.
StoredKeys(log) ==
  {<<log[i].bufferType, log[i].peer>> :
     i \in {j \in PlacesOf(log, "recvMemoryOnSetup") :
              RoleCalls(log, log[j].bufferType, "getMemories") # {}}}

\* The descriptors the futures of a rank's receivers were resolved with.
Received(r) ==
  {futures[r][f].value[1] :
     f \in {g \in DOMAIN futures[r] : futures[r][g].value # <<>>}}

\* C27: when the channels of a context have been constructed, the keys of
\* the context's registered-memory map are the keys stored in the memory
\* exchange of the same call, none added; and every channel is bound to the
\* entry of (its destination role, its peer), which is a descriptor the rank
\* received from that peer and not a default-constructed one.
C27_ChannelsBoundToReceived ==
  \A r \in Ranks :
    (run[r].path = "cold" /\ PlacesOf(run[r].log, "buildChannels") # {}) =>
      LET context == run[r].context
          plan == run[r].key.plan
      IN /\ DOMAIN context.registeredMemories = StoredKeys(run[r].log)
         /\ \A channelType \in {"SM", "PROXY"} :
              LET es == InfoPeers(getChannelInfosOfType(plan, r, channelType))
                  chans == IF channelType = "SM" THEN context.smChannels
                           ELSE context.proxyChannels
              IN /\ Len(chans) = Len(es)
                 /\ \A k \in DOMAIN chans :
                      /\ <<es[k].info.dstBufferType, es[k].peer>> \in
                           StoredKeys(run[r].log)
                      /\ chans[k].dst =
                           context.registeredMemories[
                             <<es[k].info.dstBufferType, es[k].peer>>]
                      /\ chans[k].dst # NoMemory
                      /\ chans[k].dst \in Received(r)
                      /\ chans[k].dst \in
                           Range(sentLog[<<es[k].peer, r, 0>>])

\* C27 witness: a rank has constructed the channels of the plan with two
\* destination roles, one per channel kind, after it stored a descriptor of
\* its peer for each.
C27_Witness ==
  \E r \in Ranks :
    /\ run[r].path = "cold"
    /\ run[r].key.plan = "allreduce"
    /\ PlacesOf(run[r].log, "buildChannels") # {}
    /\ Cardinality(StoredKeys(run[r].log)) = 2
    /\ Len(run[r].context.smChannels) = 1
    /\ Len(run[r].context.proxyChannels) = 1
    /\ run[r].context.smChannels[1].dst # run[r].context.proxyChannels[1].dst

(***************************************************************************)
(* setup() with hooks that raise: the bootstrap send of a MemorySender's   *)
(* beginSetup or the bootstrap receive of a MemoryReceiver's endSetup      *)
(* fails, or a MemoryReceiver's endSetup sets a promise that is already    *)
(* satisfied.  setup() catches nothing.                                    *)
(***************************************************************************)
\* Setuppables enqueued over a run, all ranks together.
MaxQueued == 4

\* setup() calls that run beginSetup on the same Setuppable.
MaxBegins == 2

\* A setup() that is left by an exception without the Setuppables whose hook
\* has returned in the loop the exception came from.
leftByThrowBehind(queue, at) == SubSeq(queue, at, Len(queue))

\* A setup() that clears the queue when an exception leaves it.
leftByThrowCleared(queue, at) == <<>>

\* communicator.cc:129 setup() left by an exception of the hook of the
\* element at a place of the queue: the loops are not in a try block, line
\* 136 is not reached and the queue is what it was.
leftByThrow(queue, at) == queue

\* The Setuppable whose hook setup() of rank r runs next.
HookAt(r) == toSetup[r][idx[r]]

\* The exception of a hook leaves setup() of rank r.
Throw(r, code) ==
  /\ toSetup' = [toSetup EXCEPT ![r] = leftByThrow(@, idx[r])]
  /\ pc' = [pc EXCEPT ![r] = "idle"]
  /\ idx' = [idx EXCEPT ![r] = 0]
  /\ lastError' = [lastError EXCEPT ![r] =
                     [code |-> code, remoteRank |-> HookAt(r).remoteRank,
                      transport |-> "Unknown"]]
  /\ enq' = [enq EXCEPT ![r] = callSet[r]]
  /\ callSet' = [callSet EXCEPT ![r] = <<>>]

\* communicator.cc:62 the bootstrap send of the MemorySender's beginSetup
\* that setup() of rank r runs next raises.
SendRaises(r) ==
  /\ pc[r] = "begin"
  /\ idx[r] <= Len(toSetup[r])
  /\ HookAt(r).kind = "sender"
  /\ Throw(r, "BootstrapSend")
  /\ UNCHANGED <<rankToHash, connections, ibContexts, channel, futures,
                 nextId, callLog, nBegin, nEnd, sentLog, ibCreated, lastCtx>>

\* communicator.cc:79 the bootstrap receive of the MemoryReceiver's endSetup
\* that setup() of rank r runs next raises.
RecvRaises(r) ==
  /\ pc[r] = "end"
  /\ idx[r] <= Len(toSetup[r])
  /\ HookAt(r).kind = "receiver"
  /\ futures[r][HookAt(r).fut].value = <<>>
  /\ Throw(r, "BootstrapRecv")
  /\ UNCHANGED <<rankToHash, connections, ibContexts, channel, futures,
                 nextId, callLog, nBegin, nEnd, sentLog, ibCreated, lastCtx>>

\* communicator.cc:80 the MemoryReceiver's endSetup that setup() of rank r
\* runs next has received, and sets a promise that is satisfied already.
PromiseRaises(r) ==
  /\ pc[r] = "end"
  /\ idx[r] <= Len(toSetup[r])
  /\ HookAt(r).kind = "receiver"
  /\ futures[r][HookAt(r).fut].value # <<>>
  /\ BootstrapRecvReady(channel, HookAt(r).remoteRank, r, HookAt(r).tag)
  /\ channel' = BootstrapRecvRest(channel, HookAt(r).remoteRank, r,
                                  HookAt(r).tag)
  /\ nEnd' = [nEnd EXCEPT ![r][HookAt(r).id] = @ + 1]
  /\ Throw(r, "PromiseAlreadySatisfied")
  /\ UNCHANGED <<rankToHash, connections, ibContexts, futures, nextId,
                 callLog, nBegin, sentLog, ibCreated, lastCtx>>

\* endSetup of the element setup() of rank r is at sets no promise twice.
SetsPromiseOnce(r) ==
  (idx[r] \in DOMAIN toSetup[r] /\ HookAt(r).kind = "receiver") =>
    futures[r][HookAt(r).fut].value = <<>>

NextFail ==
  /\ UNCHANGED <<execVars, auxVars>>
  /\ \E r \in Ranks :
       \/ /\ TotalObjs < MaxQueued
          /\ \/ \E p \in Peers(r) :
                  SendMemoryOnSetup(r, MemoryOf(r, nextId[r]), p, ExchangeTag)
             \/ \E p \in Peers(r) : RecvMemoryOnSetup(r, p, ExchangeTag)
       \/ /\ \A id \in ObjIds : nBegin[r][id] < MaxBegins
          /\ SetupCall(r)
       \/ BeginLoop(r)
       \/ SetsPromiseOnce(r) /\ EndLoop(r)
       \/ SendRaises(r)
       \/ RecvRaises(r)
       \/ PromiseRaises(r)

SpecFail == InitOneHost /\ [][NextFail]_vars

\* A step of rank r in which a hook raises.
Raised(r) == pc[r] # "idle" /\ pc'[r] = "idle" /\ lastError'[r] # NoError

\* C24: when a hook raises during setup(), setup() is left with the error
\* and the pending queue still holds, in order, every Setuppable it held
\* when the call started; the next setup() call starts at the first element
\* of the queue, and when its first loop is through it has invoked
\* beginSetup on every element of the queue, those that had their beginSetup
\* in the failed call included.
C24_Step ==
  \A r \in Ranks :
    /\ Raised(r) =>
         /\ toSetup'[r] = toSetup[r]
         /\ QueueIds(r) = callSet[r]
         /\ [i \in 1..Len(toSetup'[r]) |-> toSetup'[r][i].id] = callSet[r]
    /\ (pc[r] = "idle" /\ pc'[r] = "begin") => idx'[r] = 1
    /\ (pc[r] = "begin" /\ pc'[r] = "end") =>
         \A i \in DOMAIN toSetup[r] :
           /\ LogEvent("begin", toSetup[r][i].id) \in Range(callLog[r])
           /\ nBegin'[r][toSetup[r][i].id] >= 1

C24_FailedSetupKeepsQueue == [][C24_Step]_vars

\* C24 witness: a setup() call has invoked beginSetup a second time on a
\* Setuppable, after a call in which the hook of the element behind it
\* raised, and is through its first loop.
C24_Witness ==
  \E r \in Ranks :
    /\ pc[r] = "end"
    /\ Len(toSetup[r]) = 2
    /\ nBegin[r][toSetup[r][1].id] = 2
    /\ nEnd[r][toSetup[r][1].id] = 0
    /\ nBegin[r][toSetup[r][2].id] = 1

(***************************************************************************)
(* The table of the RDMA transports, read by the Executor of every rank of *)
(* a job of two hosts with the same number of ranks on each.               *)
(***************************************************************************)
\* The ranks of a host.
MaxPerNode == 9

\* The host tables of the jobs: ranks 0..n-1 on one host, n..2n-1 on the
\* other, for every number n of ranks per host.
BlockTables ==
  {[r \in 0..(2 * n - 1) |-> IF r < n THEN "hostA" ELSE "hostB"] :
     n \in 1..MaxPerNode}

InitPick ==
  /\ CommunicatorInit(BlockTables)
  /\ LaunchInit({FlagZero})
  /\ NoTest

\* The values a read of a transport can yield.
TransportValues == {TransportOrder[i] : i \in DOMAIN TransportOrder}

\* communicator.cc:188 IBs[index]: the element at the index, and whatever
\* lies behind the array for an index behind its eight elements.
IBsAt(index) ==
  IF index < Len(IBs) THEN {IBs[index + 1]} ELSE TransportValues

\* communicator.cc:281 the transport setupConnections selects for a peer.
PickForConnection(rank, peer) ==
  /\ IF inSameNode(rank, peer, nranksPerNode)
     THEN selected' = [rank |-> rank, peer |-> peer, transport |-> "CudaIpc",
                       result |-> "connection", read |-> FALSE, index |-> 0]
     ELSE \E transport \in IBsAt(rank % nranksPerNode) :
            selected' = [rank |-> rank, peer |-> peer,
                         transport |-> transport, result |-> "connection",
                         read |-> TRUE, index |-> rank % nranksPerNode]
  /\ UNCHANGED <<commVars, execVars, pureVars, launchVars, testVars>>

\* communicator.cc:267 the flag getTransportFlags adds for a peer of a
\* channel info of the proxy kind.
PickForFlags(rank, peer) ==
  /\ IF ~inSameNode(rank, peer, nranksPerNode)
     THEN \E transport \in IBsAt(rank % nranksPerNode) :
            selected' = [rank |-> rank, peer |-> peer,
                         transport |-> transport, result |-> "flags",
                         read |-> TRUE, index |-> rank % nranksPerNode]
     ELSE selected' = [rank |-> rank, peer |-> peer, transport |-> "CudaIpc",
                       result |-> "flags", read |-> FALSE, index |-> 0]
  /\ UNCHANGED <<commVars, execVars, pureVars, launchVars, testVars>>

NextPick ==
  \E rank \in DOMAIN rankToHash, peer \in DOMAIN rankToHash :
    /\ peer # rank
    /\ \/ PickForConnection(rank, peer)
       \/ PickForFlags(rank, peer)

SpecPick == InitPick /\ [][NextPick]_vars

\* C26: the index rank modulo ranks-per-node with which the table of the
\* eight RDMA transports is read, in setupConnections and in
\* getTransportFlags, is within 0..7.
C26_IndexWithinTable ==
  (selected # NoSelection /\ selected.read) =>
    selected.index \in 0..(Len(IBs) - 1)

(***************************************************************************)
(* The cold path with hooks that raise: the exception leaves setup(), the  *)
(* stage that called it and setupExecutionContext, which catch nothing;    *)
(* the Executor of a rank whose call raised is not called again.           *)
(***************************************************************************)
\* communicator.cc:222 setupExecutionContext of rank r is left by the
\* exception that leaves the setup() of one of its stages.
Unwind(r) ==
  /\ run[r].outcome = "running"
  /\ run' = [run EXCEPT ![r] = [@ EXCEPT !.pos = 0, !.outcome = "raised"]]
  /\ UNCHANGED <<nranksPerNode, contexts, planImpl, lastCall, caches, auxVars>>

NextColdFail ==
  \E r \in Ranks :
    \/ \E plan \in ChannelPlans, m \in MessageInputs :
         /\ run[r].outcome # "raised"
         /\ \A p \in Peers(r) :
              IF run[p].path = "none" THEN TRUE ELSE run[p].key.plan = plan
         /\ CallExecutor(r, plan, m.inputSize, m.outputSize, m.srcOffset,
                         m.dstOffset)
    \/ ColdStep(r)
    \/ BeginLoop(r) /\ UNCHANGED <<execVars, auxVars>>
    \/ EndLoop(r) /\ UNCHANGED <<execVars, auxVars>>
    \/ SendRaises(r) /\ Unwind(r)
    \/ RecvRaises(r) /\ Unwind(r)

SpecColdFail == Init /\ [][NextColdFail]_vars

\* The calls of the Executor that enqueue a Setuppable, one each.
EnqueueOps ==
  {"connectOnSetup", "sendMemoryOnSetup", "recvMemoryOnSetup",
   "semaphoreSend", "semaphoreRecv"}

\* How many Setuppables a log enqueued at its places from..to.
Enqueued(log, from, to) ==
  Cardinality({i \in from..to : log[i].op \in EnqueueOps})

\* The place of the setup() call before the last call of a log, 0 if none.
SetupBefore(log) ==
  LET setups == {i \in PlacesOf(log, "setup") : i < Len(log)}
  IN IF setups = {} THEN 0
     ELSE CHOOSE i \in setups : \A j \in setups : j <= i

\* C25 as stated: when setupExecutionContext has terminated, by returning
\* or by raising, the pending queue of the rank's Communicator holds no
\* Setuppable enqueued during the call.
C25_QueueFlushedAtExit ==
  \A r \in Ranks :
    run[r].outcome \in {"returned", "raised"} => toSetup[r] = <<>>

\* C25 amended: when setupExecutionContext has returned, the pending queue
\* holds no Setuppable enqueued during the call, every one of them having
\* had its two hooks once; when it has raised from the setup() of a stage,
\* the Setuppables of the stages before have been flushed in the same way
\* and the queue holds, in order, exactly the Setuppables the failing stage
\* enqueued.
C25_FlushedUnlessRaised ==
  \A r \in Ranks :
    /\ run[r].outcome = "returned" =>
         /\ toSetup[r] = <<>>
         /\ \A id \in 1..(nextId[r] - 1) :
              nBegin[r][id] = 1 /\ nEnd[r][id] = 1
    /\ run[r].outcome = "raised" =>
         LET log == run[r].log
             all == Enqueued(log, 1, Len(log))
             stage == Enqueued(log, SetupBefore(log) + 1, Len(log))
         IN /\ log[Len(log)].op = "setup"
            /\ all = nextId[r] - 1
            /\ stage > 0
            /\ QueueIds(r) = [i \in 1..stage |-> all - stage + i]
            /\ \A id \in 1..(all - stage) :
                 nBegin[r][id] = 1 /\ nEnd[r][id] = 1

\* C25 witness: the call of a rank has raised from the setup() of channel
\* construction, with the semaphore requests of the stage in the queue and
\* the connection and the memory requests flushed; the call of its peer has
\* returned.
C25_Witness ==
  \E r \in Ranks :
    /\ run[r].outcome = "raised"
    /\ ChannelSetups(run[r].log) # {}
    /\ Len(toSetup[r]) >= 4
    /\ Len(toSetup[r]) < nextId[r] - 1
    /\ \E p \in Peers(r) : run[p].path = "cold" /\ run[p].outcome = "returned"

====
